---- MODULE Spec2Model ----
(***************************************************************************)
(* Shift-scheduling core of the AI service: the /generate request          *)
(* (routers/shifts.py), ShiftOptimizer.optimize_shifts and its helpers     *)
(* (models/shift_optimizer.py) and the CP-SAT model of                     *)
(* TimefoldHybridSolver.solve (utils/solvers/timefold_hybrid.py).          *)
(*                                                                         *)
(* Conventions.  Dates are day numbers, day 0 being a Monday, so that      *)
(* datetime.weekday() is d % 7 and the ISO strings' order is the numeric   *)
(* order.  Python lists of skills or shift tags that the code only tests   *)
(* for membership or intersection are sets.  Employees and slots are       *)
(* addressed by their 1-based position (the code's index + 1); an          *)
(* employee's id is its position in the roster.  A dict is a function on   *)
(* its keys; None and {} for required_skills are both the empty function   *)
(* (the code only tests its truthiness), and a slot's required_skills of   *)
(* None is the empty set.                                                  *)
(***************************************************************************)
EXTENDS Integers, Sequences, FiniteSets, TLC

VARIABLES
    pc,                \* position of the /generate request in its handler
    request,           \* ShiftGenerateRequest: employees, constraints, period
    time_slots,        \* optimize_shifts: time_slots
    schedule,          \* optimize_shifts: schedule
    solver_violations, \* optimize_shifts: solver_violations["uncovered_slots"]
    solver_used,       \* optimize_shifts: solver_used
    cp_model,          \* the CP-SAT model solve() has built
    solve_status,      \* outcome of solver.Solve(model) in the exact solver
    response,          \* ShiftGenerateResponse returned by optimize_shifts
    http_status,       \* status code delivered by generate_optimized_shifts
    steps,             \* the steps optimize_shifts has entered, in order
    probe,             \* harness state for the feasibility filters
    slot_calls,        \* the calls of _create_time_slots made so far
    validation,        \* the /constraints/validate request and its result
    ga,                \* a call of _genetic_algorithm_optimization
    task_cache,        \* ShiftOptimizer.task_cache: task id -> entry
    jobs,              \* the batch_optimize coroutines: position and periods
    writes,            \* per task id, the entries written to task_cache
    polled,            \* per task id, the last answer of get_task_status
    violation_call,    \* a call of _check_violations and its result
    goal_runs,         \* optimize_shifts run twice under two optimize_for tags
    loop,              \* the event loop, its coroutines and the executor
    evolution          \* the generations of _genetic_algorithm_optimization

\* the variables of the harnesses and of the batch jobs, which the /generate
\* request leaves alone
other_vars == <<slot_calls, validation, ga, task_cache, jobs, writes, polled>>

\* the variables of the calls made on their own: _check_violations, the two
\* optimize_shifts runs, the event loop and the generations of the heuristic
more_vars == <<violation_call, goal_runs, loop, evolution>>

\* the variables of the /generate request
generate_vars == <<pc, request, time_slots, schedule, solver_violations, solver_used,
                   cp_model, solve_status, response, http_status, steps>>

vars == <<pc, request, time_slots, schedule, solver_violations, solver_used,
          cp_model, solve_status, response, http_status, steps, probe,
          slot_calls, validation, ga, task_cache, jobs, writes, polled,
          violation_call, goal_runs, loop, evolution>>

----------------------------------------------------------------------------
(* Bounds of the model *)

MaxEmployees == 2
MaxDays == 2
MaxPeriods == 3
MaxPolls == 2

\* the knobs of the heuristic, scaled down: the program runs a population of
\* 80 over 120 generations (shift_optimizer.py, lines 28 and 29)
population_size == 4
generations == 2

(* Program constants *)

shift_hours == 8

\* self.tournament_size
tournament_size == 4

\* `if best_fitness > 0.96: break`, in millionths
early_stop == 960000

----------------------------------------------------------------------------
(* Strings, enums, dates *)

\* str.lower() on the strings the model uses
Lower(s) ==
    CASE s = "MORNING" -> "morning"
      [] s = "AFTERNOON" -> "afternoon"
      [] s = "NIGHT" -> "night"
      [] s = "Morning" -> "morning"
      [] s = "Night" -> "night"
      [] s = "Monday" -> "monday"
      [] s = "Tuesday" -> "tuesday"
      [] s = "Wednesday" -> "wednesday"
      [] s = "Thursday" -> "thursday"
      [] s = "Friday" -> "friday"
      [] s = "Saturday" -> "saturday"
      [] s = "Sunday" -> "sunday"
      [] s = "FRIDAY" -> "friday"
      [] OTHER -> s

\* ShiftSlot enum, in the order _create_time_slots iterates it
slot_types == <<"MORNING", "AFTERNOON", "NIGHT">>

\* datetime.weekday(): Monday = 0 ... Sunday = 6
Weekday(date) == date % 7

\* datetime.strftime("%A")
DayNameOf(date) ==
    <<"Monday", "Tuesday", "Wednesday", "Thursday", "Friday", "Saturday",
      "Sunday">>[Weekday(date) + 1]

Min(a, b) == IF a <= b THEN a ELSE b

Max(a, b) == IF a >= b THEN a ELSE b

\* a variant of the rounding that drops the remainder
TruncDiv(a, b) == a \div b

\* round(a / b) for a >= 0 and b > 0, a tie going to the even neighbour
RoundDiv(a, b) ==
    LET q == a \div b
        r == a % b
    IN  IF 2 * r < b THEN q
        ELSE IF 2 * r > b THEN q + 1
        ELSE IF q % 2 = 0 THEN q ELSE q + 1

\* the integer part of the square root of n >= 0
RECURSIVE SqrtIter(_, _)
SqrtIter(n, x) ==
    LET y == (x + (n \div x)) \div 2
    IN  IF y >= x THEN x ELSE SqrtIter(n, y)

ISqrt(n) == IF n = 0 THEN 0 ELSE SqrtIter(n, n)

\* dict.get(key, default)
DictGet(dict, key, default) == IF key \in DOMAIN dict THEN dict[key] ELSE default

\* the empty dict
EmptyDict == << >>

----------------------------------------------------------------------------
(* _create_time_slots: three slots per day from start_date to end_date.     *)
(* An ISO string of a period is the record of its calendar date (a day      *)
(* number) and its hour of the day; a string without a time has hour 0.     *)
(* A datetime is a number of hours since midnight of day 0.  All strings    *)
(* of one period carry the same UTC offset or none.                         *)

\* the ISO string of a date without a time of day
DateOnly(date) == [date |-> date, hour |-> 0]

\* datetime.fromisoformat(s.replace("Z", "+00:00"))
FromIsoFormat(s) == s.date * 24 + s.hour

\* current_date.strftime("%Y-%m-%d"): the calendar date of a datetime
StrfDate(datetime) == datetime \div 24

\* the three slots the inner loop appends for current_date
SlotsOfDay(current_date, constraints) ==
    [i \in 1..Len(slot_types) |->
        [date |-> StrfDate(current_date),
         slot |-> slot_types[i],
         required_employees |-> 1,
         required_skills |->
             DictGet(constraints.required_skills, Lower(slot_types[i]), {})]]

\* a variant of the loop that stops before the end date
RECURSIVE SlotsFromBeforeEnd(_, _, _)
SlotsFromBeforeEnd(current_date, end_date, constraints) ==
    IF current_date >= end_date THEN << >>
    ELSE SlotsOfDay(current_date, constraints)
         \o SlotsFromBeforeEnd(current_date + 24, end_date, constraints)

\* while current_date <= end_date: ...; current_date += timedelta(days=1)
RECURSIVE SlotsFrom(_, _, _)
SlotsFrom(current_date, end_date, constraints) ==
    IF current_date > end_date THEN << >>
    ELSE SlotsOfDay(current_date, constraints)
         \o SlotsFrom(current_date + 24, end_date, constraints)

CreateTimeSlots(period, constraints) ==
    SlotsFrom(FromIsoFormat(period.start_date), FromIsoFormat(period.end_date),
              constraints)

----------------------------------------------------------------------------
(* Feasibility filters *)

\* {k.lower(): [s.lower() for s in v] for k, v in employee.availability.items()}
\* (no two keys of a modelled availability dict collide after lower())
LowerAvailability(availability) ==
    [k \in {Lower(x) : x \in DOMAIN availability} |->
        LET x == CHOOSE y \in DOMAIN availability : Lower(y) = k
        IN  {Lower(t) : t \in availability[x]}]

\* TimefoldHybridSolver._is_available (a variant that looks the required
\* skills up under the enum value instead of its lower-case form)
IsAvailableByEnumValue(employee, slot, constraints) ==
    LET day_name == Lower(DayNameOf(slot.date))
        available_slots == DictGet(LowerAvailability(employee.availability), day_name, {})
    IN  IF Lower(slot.slot) \notin available_slots THEN FALSE
        ELSE IF DOMAIN constraints.required_skills # {}
             THEN LET required == DictGet(constraints.required_skills, slot.slot, {})
                  IN  ~(required # {} /\ required \cap employee.skills = {})
             ELSE TRUE

\* TimefoldHybridSolver._is_available
IsAvailable(employee, slot, constraints) ==
    LET day_name == Lower(DayNameOf(slot.date))
        available_slots == DictGet(LowerAvailability(employee.availability), day_name, {})
    IN  IF Lower(slot.slot) \notin available_slots THEN FALSE
        ELSE IF DOMAIN constraints.required_skills # {}
             THEN LET required == DictGet(constraints.required_skills, Lower(slot.slot), {})
                  IN  ~(required # {} /\ required \cap employee.skills = {})
             ELSE TRUE

\* ShiftOptimizer._is_employee_available_for_slot
IsEmployeeAvailableForSlot(employee, slot) ==
    LET day_name == Lower(DayNameOf(slot.date))
        availability == LowerAvailability(employee.availability)
    IN  IF Lower(slot.slot) \notin DictGet(availability, day_name, {}) THEN FALSE
        ELSE LET required == slot.required_skills
             IN  required = {} \/ (required \cap employee.skills # {})


----------------------------------------------------------------------------
(* TimefoldHybridSolver.solve, lines 34-147: the CP-SAT model it builds.    *)
(* A truth assignment of the model's boolean variables is the set X of      *)
(* (employee, slot) variables that are true.                                *)

\* the keys of `assignments`: one boolean variable per feasible pair
DecisionVars(employees, slots, constraints) ==
    {v \in (1..Len(employees)) \X (1..Len(slots)) :
        IsAvailable(employees[v[1]], slots[v[2]], constraints)}

\* coverage_tracker, a defaultdict(list): a key exists only for a slot that
\* had a variable appended
CoverageTracker(assignments) ==
    [s \in {v[2] : v \in assignments} |-> {v \in assignments : v[2] = s}]

\* uncovered_slots: the keys of coverage_tracker whose list is empty
UncoveredSlots(coverage_tracker) ==
    {s \in DOMAIN coverage_tracker : coverage_tracker[s] = {}}

\* a variant of the hours cap that reads only the employee's own cap
EmployeeCapOnly(employee, constraints) == employee.max_hours_per_week

\* max_hours = min(employee.max_hours_per_week, constraints.max_hours_per_week)
HoursCap(employee, constraints) ==
    Min(employee.max_hours_per_week, constraints.max_hours_per_week)

\* shift_times[slot]["start"]
ShiftStart(slot) ==
    CASE slot = "MORNING" -> 8 [] slot = "AFTERNOON" -> 16 [] slot = "NIGHT" -> 0

\* shift_times[slot]["end"]
ShiftEnd(slot) ==
    CASE slot = "MORNING" -> 16 [] slot = "AFTERNOON" -> 24 [] slot = "NIGHT" -> 8

\* sorted(iterable of dates)
RECURSIVE SortedSeq(_)
SortedSeq(S) ==
    IF S = {} THEN << >>
    ELSE LET m == CHOOSE x \in S : \A y \in S : x <= y
         IN  <<m>> \o SortedSeq(S \ {m})

\* days = sorted({slot["date"] for slot in time_slots})
Days(slots) == SortedSeq({slots[i].date : i \in 1..Len(slots)})

\* day_to_slots[date]
DayToSlots(slots, date) == {i \in 1..Len(slots) : slots[i].date = date}

\* rest_hours between a shift of one day and a shift of the next day in `days`
RestHours(curr_slot, next_slot) ==
    IF ShiftEnd(curr_slot) = 24 THEN ShiftStart(next_slot)
    ELSE (24 - ShiftEnd(curr_slot)) + ShiftStart(next_slot)

\* the pairs of variables for which the rest loop adds  var + var <= 1
RestExclusions(slots, constraints, assignments) ==
    LET days == Days(slots)
        following == {<<s1, s2>> \in (1..Len(slots)) \X (1..Len(slots)) :
                         /\ \E day_idx \in 1..(Len(days) - 1) :
                               /\ s1 \in DayToSlots(slots, days[day_idx])
                               /\ s2 \in DayToSlots(slots, days[day_idx + 1])
                         /\ RestHours(slots[s1].slot, slots[s2].slot)
                                < constraints.min_rest_hours}
    IN  {<<v, w>> \in assignments \X assignments :
            v[1] = w[1] /\ <<v[2], w[2]>> \in following}

\* max_consecutive = constraints.max_consecutive_days or 7
MaxConsecutive(constraints) ==
    IF constraints.max_consecutive_days = 0 THEN 7 ELSE constraints.max_consecutive_days

\* the slots behind each entry of indicator_array: one entry per run of equal
\* dates, holding day_to_slots of that date
IndicatorDays(slots) ==
    LET starts == SelectSeq([i \in 1..Len(slots) |-> i],
                     LAMBDA i : i = 1 \/ slots[i].date # slots[i - 1].date)
    IN  [j \in 1..Len(starts) |-> DayToSlots(slots, slots[starts[j]].date)]

\* the model solve() hands to solver.Solve
BuildCpModel(employees, slots, constraints) ==
    LET assignments == DecisionVars(employees, slots, constraints)
    IN  [assignments |-> assignments,
         coverage_tracker |-> CoverageTracker(assignments),
         uncovered_slots |-> UncoveredSlots(CoverageTracker(assignments)),
         max_hours |-> [e \in {v[1] : v \in assignments} |->
                           HoursCap(employees[e], constraints)],
         rest_exclusions |-> RestExclusions(slots, constraints, assignments),
         indicator_days |-> IndicatorDays(slots),
         max_consecutive |-> MaxConsecutive(constraints),
         num_employees |-> Len(employees),
         num_slots |-> Len(slots)]

NoModel ==
    [assignments |-> {}, coverage_tracker |-> << >>, uncovered_slots |-> {},
     max_hours |-> << >>, rest_exclusions |-> {}, indicator_days |-> << >>,
     max_consecutive |-> 7, num_employees |-> 0, num_slots |-> 0]

----------------------------------------------------------------------------
(* solver.Solve(model): the truth assignments the constraints admit          *)

\* a variant of the coverage constraint that lets a slot stay open
AddAtMostOne(variables) == {{}} \cup {{v} : v \in variables}

\* model.AddExactlyOne(variables): the truth assignments of `variables` it admits
AddExactlyOne(variables) == {{v} : v \in variables}

\* model.Add(sum(employee_vars) * shift_hours <= max_hours), every employee
MaxHoursConstraint(X, model) ==
    \A e \in DOMAIN model.max_hours :
        Cardinality({v \in X : v[1] = e}) * shift_hours <= model.max_hours[e]

\* model.Add(var + var <= 1), every excluded pair
MinRestConstraint(X, model) ==
    \A pair \in model.rest_exclusions : ~(pair[1] \in X /\ pair[2] \in X)

\* the value AddMaxEquality / Add(indicator == 0) forces on a day indicator
DayActive(X, e, day_slots) ==
    IF \E v \in X : v[1] = e /\ v[2] \in day_slots THEN 1 ELSE 0

RECURSIVE SumSeq(_)
SumSeq(seq) == IF seq = << >> THEN 0 ELSE Head(seq) + SumSeq(Tail(seq))

\* model.Add(sum(window) <= max_consecutive), every window of
\* max_consecutive + 1 entries of every employee's indicator_array
MaxConsecutiveConstraint(X, model) ==
    \A e \in 1..model.num_employees :
        LET indicator_array ==
                [j \in 1..Len(model.indicator_days) |->
                    DayActive(X, e, model.indicator_days[j])]
        IN  \A i \in 1..(Len(indicator_array) - model.max_consecutive) :
                SumSeq(SubSeq(indicator_array, i, i + model.max_consecutive))
                    <= model.max_consecutive

\* every linear constraint of the model other than coverage
LinearConstraints(X, model) ==
    /\ MaxHoursConstraint(X, model)
    /\ MinRestConstraint(X, model)
    /\ MaxConsecutiveConstraint(X, model)

\* The truth assignments that cover the first k slots as the coverage
\* constraint demands and satisfy the linear constraints.  Each linear
\* constraint bounds a sum of variables from above, so a partial assignment
\* that breaks one has no completion and is dropped at once.
RECURSIVE PartialSolutions(_, _)
PartialSolutions(k, model) ==
    IF k = 0 THEN {{}}
    ELSE LET prev == PartialSolutions(k - 1, model)
         IN  IF k \in DOMAIN model.coverage_tracker /\ model.coverage_tracker[k] # {}
             THEN {Y \in {X \cup c : X \in prev,
                                     c \in AddExactlyOne(model.coverage_tracker[k])} :
                      LinearConstraints(Y, model)}
             ELSE prev

\* the truth assignments solver.Solve may report as OPTIMAL or FEASIBLE: the
\* solver runs under a time limit and may stop at any feasible assignment, so
\* the objective does not narrow the set
FeasibleAssignments(model) == PartialSolutions(model.num_slots, model)

\* ShiftAssignment(...) built for one (employee, slot) pair; confidence is in
\* hundredths, the two decimals round(confidence, 2) keeps
ShiftAssignmentOf(e, s, slots, confidence) ==
    [employee_id |-> e,
     day |-> slots[s].date,
     slot |-> slots[s].slot,
     confidence |-> confidence,
     required_skills |-> slots[s].required_skills]

\* a variant of the exact solver's confidence without floor and ceiling
UnclampedConfidence(employee) == 2 * employee.performance_score + 20

\* confidence = max(confidence_floor, min(0.95, performance_score / 5 + 0.2)),
\* in hundredths; performance_score is in tenths
ExactConfidence(employee) ==
    Max(55, Min(95, 2 * employee.performance_score + 20))

\* assignments.items(): the variables in insertion order, employee-major
VarsInOrder(num_employees, num_slots) ==
    [i \in 1..(num_employees * num_slots) |->
        <<((i - 1) \div num_slots) + 1, ((i - 1) % num_slots) + 1>>]

\* the schedule solve() builds from the variables that are true
ExactSchedule(X, model, employees, slots) ==
    LET chosen == SelectSeq(VarsInOrder(model.num_employees, model.num_slots),
                            LAMBDA v : v \in X)
    IN  [i \in 1..Len(chosen) |->
            ShiftAssignmentOf(chosen[i][1], chosen[i][2], slots,
                              ExactConfidence(employees[chosen[i][1]]))]

----------------------------------------------------------------------------
(* Genetic fallback.  A gene is the position of an employee, or -1.         *)

\* a variant of the options that skips the filter
AnyEmployee(slot, employees) == 1..Len(employees)

\* options: the employees the heuristic's filter admits for a slot
Options(slot, employees) ==
    {idx \in 1..Len(employees) : IsEmployeeAvailableForSlot(employees[idx], slot)}

\* a variant of the gene values that draws any employee for a slot without
\* options
GeneValuesOrAnyone(slot, employees) ==
    IF Options(slot, employees) # {} THEN Options(slot, employees)
    ELSE 1..Len(employees)

\* the values _initialize_population and _mutate may give the gene of a slot
GeneValues(slot, employees) ==
    IF Options(slot, employees) # {} THEN Options(slot, employees) ELSE {-1}

\* every chromosome the population can hold for the first k slots
RECURSIVE Chromosomes(_, _, _)
Chromosomes(k, employees, slots) ==
    IF k = 0 THEN {<< >>}
    ELSE {Append(c, g) : c \in Chromosomes(k - 1, employees, slots),
                         g \in GeneValues(slots[k], employees)}

\* _calculate_assignment_confidence, in hundredths.  The weighted sum is
\* taken in ten-thousandths: 0.4 * (0.4 + performance_score / 5 * 0.6) is
\* 1600 + 48 * tenths of performance_score.
AssignmentConfidence(employee, slot, current_hours) ==
    LET performance == 1600 + 48 * employee.performance_score
        required_skills == slot.required_skills
        skill == IF required_skills # {} /\ ~(required_skills \subseteq employee.skills)
                 THEN 1800 ELSE 3000
        max_hours == Max(employee.max_hours_per_week, 1)
        fairness == IF current_hours * 4 <= 3 * max_hours THEN 2000
                    ELSE IF current_hours * 10 <= 9 * max_hours THEN 1700
                    ELSE IF current_hours <= max_hours THEN 1400
                    ELSE 1000
        availability == 1000
        confidence == performance + skill + fairness + availability
    IN  RoundDiv(Max(5000, Min(10000, confidence)), 100)

\* _convert_to_shift_assignments: hours_by_employee[employee.id] at a slot is
\* shift_hours times the employee's genes up to and including that slot
ConvertToShiftAssignments(solution, employees, slots) ==
    LET assigned == SelectSeq([i \in 1..Len(solution) |-> i],
                              LAMBDA i : solution[i] >= 0)
        hours_by_employee(idx) ==
            Cardinality({j \in 1..idx : solution[j] = solution[idx]}) * shift_hours
    IN  [i \in 1..Len(assigned) |->
            ShiftAssignmentOf(solution[assigned[i]], assigned[i], slots,
                AssignmentConfidence(employees[solution[assigned[i]]],
                                     slots[assigned[i]],
                                     hours_by_employee(assigned[i])))]

----------------------------------------------------------------------------
(* _check_violations and the response *)

\* dict keys in insertion order: the distinct employee ids of a list of
\* assignments by first appearance
RECURSIVE FirstAppearances(_)
FirstAppearances(assignments) ==
    IF assignments = << >> THEN << >>
    ELSE LET e == Head(assignments).employee_id
         IN  <<e>> \o FirstAppearances(
                 SelectSeq(Tail(assignments), LAMBDA a : a.employee_id # e))

\* len(grouped[e])
CountOf(assignments, e) ==
    Len(SelectSeq(assignments, LAMBDA a : a.employee_id = e))

\* one entry of the violations list (the code formats it as a string)
Violation(kind, e, n) == [kind |-> kind, employee |-> e, count |-> n]

\* the weekly-hours entries: at most one per employee that has an assignment
HoursViolations(sched, constraints, employees) ==
    LET grouped == FirstAppearances(sched)
        weekly_hours(e) == CountOf(sched, e) * shift_hours
        max_hours(e) == Min(employees[e].max_hours_per_week,
                            constraints.max_hours_per_week)
        flagged == SelectSeq(grouped,
                     LAMBDA e : weekly_hours(e) * 10 >= max_hours(e) * 9)
    IN  [i \in 1..Len(flagged) |->
            IF weekly_hours(flagged[i]) > max_hours(flagged[i])
            THEN Violation("exceeds_weekly_limit", flagged[i], weekly_hours(flagged[i]))
            ELSE Violation("approaching_weekly_limit", flagged[i], weekly_hours(flagged[i]))]

\* the weekend entries: count > avg_weekend + 2, the average taken over the
\* employees that have a weekend shift
WeekendViolations(sched) ==
    LET weekend_shifts == SelectSeq(sched, LAMBDA s : Weekday(s.day) >= 5)
        weekend_by_employee == FirstAppearances(weekend_shifts)
        flagged == SelectSeq(weekend_by_employee,
                     LAMBDA e : CountOf(weekend_shifts, e) * Len(weekend_by_employee)
                                  > Len(weekend_shifts) + 2 * Len(weekend_by_employee))
    IN  [i \in 1..Len(flagged) |->
            Violation("excessive_weekend_shifts", flagged[i],
                      CountOf(weekend_shifts, flagged[i]))]

\* _check_violations
CheckViolations(sched, constraints, employees) ==
    HoursViolations(sched, constraints, employees) \o WeekendViolations(sched)

\* sum(x * x for x in values)
RECURSIVE SumSquares(_)
SumSquares(seq) ==
    IF seq = << >> THEN 0 ELSE Head(seq) * Head(seq) + SumSquares(Tail(seq))

\* statistics.pstdev(values) / (denominator / len(values)) in thousandths,
\* rounded down, and 0 for fewer than two values: the standard deviation is
\* sqrt(len * sum of squares - square of the sum) / len
SpreadRatio(values, denominator) ==
    \* v is the list of values, bound once as a value
    CHOOSE r \in {IF Len(v) > 1
                  THEN ISqrt((Len(v) * SumSquares(v) - SumSeq(v) * SumSeq(v)) * 1000000)
                           \div denominator
                  ELSE 0 : v \in {values}} : TRUE

\* 1 - min(cap, std / max(1, average)) when the average is positive, else 1,
\* in thousandths
DistributionFairness(counts, cap) ==
    \* c is the list of counts, bound once as a value
    CHOOSE r \in {IF SumSeq(c) > 0
                  THEN Max(0, 1000 - Min(cap, SpreadRatio(c, Max(Len(c), SumSeq(c)))))
                  ELSE 1000 : c \in {counts}} : TRUE

\* _calculate_metrics.  coverage_percentage is in hundredths of a percent
\* (round(coverage, 2)), efficiency_score and fairness_score in thousandths
\* (round(x, 3)); the spreads behind the fairness are rounded down to the
\* thousandth before they are combined.
CalculateMetrics(sched, employees, constraints, slots, violations_of_solver) ==
    LET hours_by_employee ==
            [e \in 1..Len(employees) |-> CountOf(sched, e) * shift_hours]
        night_shifts_list ==
            [e \in 1..Len(employees) |->
                Len(SelectSeq(sched, LAMBDA a : a.employee_id = e /\ a.slot = "NIGHT"))]
        weekend_list ==
            [e \in 1..Len(employees) |->
                Len(SelectSeq(sched, LAMBDA a : a.employee_id = e /\ Weekday(a.day) >= 5))]
        hours_fairness ==
            Max(0, 1000 - SpreadRatio(hours_by_employee,
                              Len(employees) * Max(1, constraints.max_hours_per_week)))
        quality_fairness == DistributionFairness(night_shifts_list, 300)
        weekend_fairness == DistributionFairness(weekend_list, 200)
        fairness == 5 * hours_fairness + 3 * quality_fairness + 2 * weekend_fairness
        violation_penalty == 50 * violations_of_solver.uncovered_slots
        efficiency == Max(0, Min(1000, RoundDiv(Len(sched) * 1000, Max(1, Len(slots)))
                                        - violation_penalty))
    IN  [efficiency_score |-> efficiency,
         fairness_score |-> RoundDiv(fairness, 10),
         constraint_violations |-> violations_of_solver.uncovered_slots,
         coverage_percentage |-> RoundDiv(Len(sched) * 10000, Max(1, Len(slots))),
         total_hours_assigned |-> Len(sched) * shift_hours]

\* optimize_shifts, lines 75-97: metrics, violations and the response
BuildResponseOf(sched, employees, constraints, slots, violations_of_solver) ==
    [schedule |-> sched,
     metrics |-> CalculateMetrics(sched, employees, constraints, slots,
                                  violations_of_solver),
     violations |->
         CheckViolations(sched, constraints, employees) \o
         (IF violations_of_solver.uncovered_slots # 0
          THEN <<Violation("uncovered_slots", 0, violations_of_solver.uncovered_slots)>>
          ELSE << >>)]

----------------------------------------------------------------------------
(* The requests the model submits: every value passes the pydantic schema   *)
(* (schemas/shifts.py), so the handler is entered.  Rosters are taken up to *)
(* the order of their employees, which the model of the solver does not     *)
(* depend on.                                                               *)

AvailabilityCatalog ==
    <<[d \in {"Friday", "saturday", "sunday", "monday"} |-> {"morning", "AFTERNOON"}],
      [d \in {"Saturday"} |-> {"Morning", "afternoon", "night"}]>>

EmployeeHoursCatalog == <<8, 24>>

SkillCatalog == <<{}, {"driving"}>>

\* performance_score, in tenths: 0.0, 2.5 and 5.0
PerformanceCatalog == <<0, 25, 50>>

EmployeeCatalog ==
    [i \in 1..(Len(AvailabilityCatalog) * Len(EmployeeHoursCatalog) * Len(SkillCatalog)) |->
        [availability |->
             AvailabilityCatalog[((i - 1) \div (Len(EmployeeHoursCatalog) * Len(SkillCatalog))) + 1],
         max_hours_per_week |->
             EmployeeHoursCatalog[(((i - 1) \div Len(SkillCatalog)) % Len(EmployeeHoursCatalog)) + 1],
         skills |-> SkillCatalog[((i - 1) % Len(SkillCatalog)) + 1],
         performance_score |->
             PerformanceCatalog[((i - 1) % Len(PerformanceCatalog)) + 1]]]

Rosters ==
    UNION {{[i \in 1..n |-> EmployeeCatalog[f[i]]] :
               f \in {g \in [1..n -> 1..Len(EmployeeCatalog)] :
                         \A i \in 1..(n - 1) : g[i] <= g[i + 1]}} :
           n \in 0..MaxEmployees}

RequiredSkillsPool == {EmptyDict, [k \in {"night"} |-> {"driving"}]}

ConstraintPool ==
    [max_hours_per_week : {16, 40},
     min_rest_hours : {7, 12},
     max_consecutive_days : {0, 1, 2},
     required_skills : RequiredSkillsPool]

\* periods that start on a Friday (day 4) and hold 0..MaxDays days
PeriodPool ==
    {[start_date |-> DateOnly(4), end_date |-> DateOnly(4 + n - 1)] : n \in 0..MaxDays}

Requests ==
    [employees : Rosters, constraints : ConstraintPool, period : PeriodPool]

NoRequest ==
    [employees |-> << >>,
     constraints |-> [max_hours_per_week |-> 40, min_rest_hours |-> 12,
                      max_consecutive_days |-> 6, required_skills |-> EmptyDict],
     period |-> [start_date |-> DateOnly(0), end_date |-> DateOnly(-1)]]

NoResponse ==
    [schedule |-> << >>,
     metrics |-> [efficiency_score |-> 0, fairness_score |-> 1000,
                  constraint_violations |-> 0, coverage_percentage |-> 0,
                  total_hours_assigned |-> 0],
     violations |-> << >>]

NoProbe ==
    [stage |-> "idle", employee |-> EmployeeCatalog[1],
     constraints |-> NoRequest.constraints, slots |-> << >>, results |-> << >>]

\* no /constraints/validate request has been made
NoValidation ==
    [stage |-> "idle",
     constraints |-> [max_hours_per_week |-> 40, min_rest_hours |-> 12,
                      max_consecutive_days |-> 6],
     result |-> [valid |-> TRUE, warnings |-> << >>, errors |-> << >>]]

\* _genetic_algorithm_optimization has not been called
NoGa ==
    [stage |-> "idle", employees |-> << >>, constraints |-> NoRequest.constraints,
     time_slots |-> << >>, result |-> << >>]

\* the task ids the batch endpoint hands out: "batch_opt_" and the time of
\* the request, two requests made at different times
TaskIds == {"batch_opt_T1", "batch_opt_T2"}

\* no batch_optimize coroutine exists for a task id
NoJob == [pc |-> "none", periods |-> 0, idx |-> 0]

\* get_task_status has not been called for a task id
NoPoll == [status |-> "none", progress |-> 0, known |-> FALSE]

\* _check_violations has not been called
NoViolationCall ==
    [stage |-> "idle", schedule |-> << >>, employees |-> << >>, violations |-> << >>]

\* optimize_shifts has not been run under any tag
NoGoalRuns == [stage |-> "idle", request |-> NoRequest, tags |-> << >>, runs |-> << >>]

\* the optimize_shifts calls the event loop may be given
CallIds == {"call_1", "call_2"}

\* an optimize_shifts call that has not arrived.  `during` counts what the
\* event loop completed while the call's solve() was running in its worker.
NoCall ==
    [pc |-> "none", solve |-> "none",
     during |-> [polls |-> 0, started |-> {}, completed |-> {}]]

\* no coroutine runs and the executor has no work
NoLoop == [calls |-> [c \in CallIds |-> NoCall], polls |-> 0]

\* _genetic_algorithm_optimization has not been entered.  best_solution is
\* None or a chromosome; the code only tests it with `not`, which None and
\* the empty chromosome answer alike, so None is the empty sequence.
\* best_fitness starts at float("-inf"), here -1: a fitness is never negative.
NoEvolution ==
    [stage |-> "idle", employees |-> << >>, constraints |-> NoRequest.constraints,
     time_slots |-> << >>, generation |-> 0, population |-> << >>,
     fitness_scores |-> << >>, best_solution |-> << >>, best_fitness |-> -1,
     new_population |-> << >>, evaluated |-> 0, highest |-> -1, applied |-> {},
     result |-> << >>]

----------------------------------------------------------------------------
(* The /generate request *)

Init ==
    /\ pc = "idle"
    /\ request = NoRequest
    /\ time_slots = << >>
    /\ schedule = << >>
    /\ solver_violations = [uncovered_slots |-> 0]
    /\ solver_used = "none"
    /\ cp_model = NoModel
    /\ solve_status = "none"
    /\ response = NoResponse
    /\ http_status = 0
    /\ steps = << >>
    /\ probe = NoProbe
    /\ slot_calls = << >>
    /\ validation = NoValidation
    /\ ga = NoGa
    /\ task_cache = EmptyDict
    /\ jobs = [t \in TaskIds |-> NoJob]
    /\ writes = [t \in TaskIds |-> << >>]
    /\ polled = [t \in TaskIds |-> NoPoll]
    /\ violation_call = NoViolationCall
    /\ goal_runs = NoGoalRuns
    /\ loop = NoLoop
    /\ evolution = NoEvolution

\* generate_optimized_shifts is entered with a request whose roster is empty:
\* HTTPException(400) is raised inside the try block, caught by
\* `except Exception` and replaced by HTTPException(500)
RejectEmptyRoster ==
    /\ pc = "idle"
    /\ \E req \in Requests :
          /\ req.employees = << >>
          /\ request' = req
    /\ http_status' = 500
    /\ pc' = "done"
    /\ UNCHANGED <<time_slots, schedule, solver_violations, solver_used, cp_model,
                   solve_status, response, steps, probe, other_vars, more_vars>>

\* generate_optimized_shifts calls optimize_shifts, which caches its inputs
\* (the cache service swallows its own errors), creates the slots and awaits
\* the exact solver
StartOptimization ==
    /\ pc = "idle"
    /\ \E req \in Requests :
          /\ req.employees # << >>
          /\ request' = req
          /\ time_slots' = CreateTimeSlots(req.period, req.constraints)
    /\ steps' = <<"create_time_slots">>
    /\ pc' = "exact"
    /\ UNCHANGED <<schedule, solver_violations, solver_used, cp_model, solve_status,
                   response, http_status, probe, other_vars, more_vars>>

\* solve() builds its model
BuildModel ==
    /\ pc = "exact"
    /\ cp_model' = BuildCpModel(request.employees, time_slots, request.constraints)
    /\ steps' = Append(steps, "run_hybrid_solver")
    /\ pc' = "solve"
    /\ UNCHANGED <<request, time_slots, schedule, solver_violations, solver_used,
                   solve_status, response, http_status, probe, other_vars, more_vars>>

\* a variant of the failure in which the error is caught and the call goes
\* on with the empty schedule
SolverErrorSwallowed(status) ==
    /\ solve_status' = status
    /\ steps' = Append(steps, "except")
    /\ pc' = "solved"
    /\ UNCHANGED <<request, time_slots, schedule, solver_violations, solver_used,
                   cp_model, response, http_status, probe, other_vars, more_vars>>

\* the failure of solve(): RuntimeError leaves optimize_shifts through its
\* `except Exception: raise` and the router answers 500
SolverRaises(status) ==
    /\ solve_status' = status
    /\ steps' = Append(steps, "except")
    /\ http_status' = 500
    /\ pc' = "done"
    /\ UNCHANGED <<request, time_slots, schedule, solver_violations, solver_used,
                   cp_model, response, probe, other_vars, more_vars>>

\* solve() returns the schedule of a truth assignment and its violations
\* dict to optimize_shifts
SolverReturns(X) ==
    /\ schedule' = ExactSchedule(X, cp_model, request.employees, time_slots)
    /\ solver_violations' = [uncovered_slots |-> Cardinality(cp_model.uncovered_slots)]
    /\ solve_status' = "FEASIBLE"
    /\ solver_used' = "timefold_cp_sat"
    /\ pc' = "solved"
    /\ UNCHANGED <<request, time_slots, cp_model, response, http_status, steps, probe,
                   other_vars, more_vars>>

\* solver.Solve(model) decides the model: INFEASIBLE when no truth assignment
\* satisfies it, else OPTIMAL or FEASIBLE with one that does
ExactSolve ==
    /\ pc = "solve"
    /\ LET feasible == FeasibleAssignments(cp_model)
       IN  IF feasible = {}
           THEN SolverRaises("INFEASIBLE")
           ELSE \E X \in feasible : SolverReturns(X)

\* solver.Solve reaches max_time_in_seconds before it has a solution
ExactSolverTimeout ==
    /\ pc = "solve"
    /\ SolverRaises("UNKNOWN")

\* a variant of the fallback test that also fires on a partial schedule
SomeSlotUncovered(sched) == Len(sched) < Len(time_slots)

\* `if not schedule`
ScheduleIsEmpty(sched) == sched = << >>

\* `if not schedule`: _genetic_algorithm_optimization returns the conversion
\* of the best chromosome it evaluated; any chromosome of the gene space can
\* be that one (a population of 80 copies of it that no mutation changes)
GeneticFallbackReturns ==
    /\ pc = "solved"
    /\ ScheduleIsEmpty(schedule)
    /\ \E best_solution \in Chromosomes(Len(time_slots), request.employees, time_slots) :
          schedule' = ConvertToShiftAssignments(best_solution, request.employees,
                                                time_slots)
    /\ solver_used' = "genetic_fallback"
    /\ steps' = Append(steps, "genetic_algorithm_optimization")
    /\ pc' = "assemble"
    /\ UNCHANGED <<request, time_slots, solver_violations, cp_model, solve_status,
                   response, http_status, probe, other_vars, more_vars>>

\* _crossover on chromosomes shorter than 2: random.randint(1, len - 1)
\* raises ValueError, which leaves optimize_shifts as any other fault
GeneticFallbackRaises ==
    /\ pc = "solved"
    /\ ScheduleIsEmpty(schedule)
    /\ Len(time_slots) < 2
    /\ solver_used' = "genetic_fallback"
    /\ steps' = steps \o <<"genetic_algorithm_optimization", "except">>
    /\ http_status' = 500
    /\ pc' = "done"
    /\ UNCHANGED <<request, time_slots, schedule, solver_violations, cp_model,
                   solve_status, response, probe, other_vars, more_vars>>

\* metrics, recommendations, violations; the response is returned and the
\* router delivers it
ReturnResponse ==
    /\ \/ pc = "assemble"
       \/ pc = "solved" /\ ~ScheduleIsEmpty(schedule)
    /\ response' = BuildResponseOf(schedule, request.employees, request.constraints,
                                   time_slots, solver_violations)
    /\ steps' = steps \o <<"calculate_metrics", "generate_recommendations",
                          "check_violations">>
    /\ http_status' = 200
    /\ pc' = "done"
    /\ UNCHANGED <<request, time_slots, schedule, solver_violations, solver_used,
                   cp_model, solve_status, probe, other_vars, more_vars>>

Next ==
    \/ RejectEmptyRoster
    \/ StartOptimization
    \/ BuildModel
    \/ ExactSolve
    \/ ExactSolverTimeout
    \/ GeneticFallbackReturns
    \/ GeneticFallbackRaises
    \/ ReturnResponse

Spec == Init /\ [][Next]_vars

----------------------------------------------------------------------------
(* The two feasibility filters applied to the slots of one period: the      *)
(* exact solver's (solve, line 45) and the heuristic's                      *)
(* (_initialize_population, line 207).                                      *)

ProbeAvailabilityPool ==
    {EmptyDict} \cup
    {[d \in days |-> tags] :
        days \in {{"friday"}, {"Saturday"}, {"FRIDAY", "saturday", "Sunday"}},
        tags \in {{}, {"morning"}, {"MORNING", "night"},
                  {"Morning", "afternoon", "Night"}}}

ProbeEmployeePool ==
    [availability : ProbeAvailabilityPool,
     max_hours_per_week : {40},
     skills : SUBSET {"driving", "cleaning"}]

ProbeRequiredSkillsPool ==
    {EmptyDict,
     [k \in {"night"} |-> {"driving"}],
     [k \in {"morning"} |-> {}],
     [k \in {"MORNING"} |-> {"driving"}],
     [k \in {"morning", "night"} |->
         IF k = "morning" THEN {"driving"} ELSE {"cleaning"}]}

ProbeConstraintPool ==
    [max_hours_per_week : {40},
     min_rest_hours : {12},
     max_consecutive_days : {6},
     required_skills : ProbeRequiredSkillsPool]

\* _create_time_slots for a period and a constraint
ProbeCreateSlots ==
    /\ probe.stage = "idle"
    /\ \E employee \in ProbeEmployeePool, constraints \in ProbeConstraintPool,
          period \in PeriodPool :
          probe' = [stage |-> "apply", employee |-> employee,
                    constraints |-> constraints,
                    slots |-> CreateTimeSlots(period, constraints),
                    results |-> << >>]
    /\ UNCHANGED <<generate_vars, other_vars, more_vars>>

\* both filters are called on the next slot
ProbeApplyFilters ==
    /\ probe.stage = "apply"
    /\ Len(probe.results) < Len(probe.slots)
    /\ LET slot == probe.slots[Len(probe.results) + 1]
       IN  probe' =
             [probe EXCEPT !.results =
                 Append(@, [exact |-> IsAvailable(probe.employee, slot, probe.constraints),
                            heuristic |-> IsEmployeeAvailableForSlot(probe.employee, slot)])]
    /\ UNCHANGED <<generate_vars, other_vars, more_vars>>

FilterNext == ProbeCreateSlots \/ ProbeApplyFilters

SpecFilter == Init /\ [][FilterNext]_vars

----------------------------------------------------------------------------
(* _create_time_slots called twice, on periods given as dates or as dates   *)
(* with a time of day.                                                      *)

\* periods that start on a Friday (day 4), at midnight or at noon, and end
\* from the day before to MaxDays days later, at midnight or at noon
SlotPeriodPool ==
    {[start_date |-> [date |-> 4, hour |-> h1],
      end_date |-> [date |-> 4 + n - 1, hour |-> h2]] :
        n \in 0..MaxDays, h1 \in {0, 12}, h2 \in {0, 12}}

\* one call of _create_time_slots
SlotCall(period, constraints) ==
    [period |-> period, constraints |-> constraints,
     slots |-> CreateTimeSlots(period, constraints)]

\* the first call
CallCreateTimeSlots ==
    /\ slot_calls = << >>
    /\ \E period \in SlotPeriodPool, constraints \in ProbeConstraintPool :
          slot_calls' = <<SlotCall(period, constraints)>>
    /\ UNCHANGED <<generate_vars, more_vars, probe, validation, ga, task_cache, jobs, writes,
                   polled>>

\* a second call, with the same input or with another
CallCreateTimeSlotsAgain ==
    /\ Len(slot_calls) = 1
    /\ \E period \in SlotPeriodPool, constraints \in ProbeConstraintPool :
          slot_calls' = Append(slot_calls, SlotCall(period, constraints))
    /\ UNCHANGED <<generate_vars, more_vars, probe, validation, ga, task_cache, jobs, writes,
                   polled>>

SlotsNext == CallCreateTimeSlots \/ CallCreateTimeSlotsAgain

SpecSlots == Init /\ [][SlotsNext]_vars

----------------------------------------------------------------------------
(* GET /constraints/validate: the router builds a dict of its three query   *)
(* parameters and returns what ShiftOptimizer.validate_constraints returns. *)

\* the query parameters: any integers, FastAPI checks only the type
ValidateHoursPool == {-1, 0, 23, 24, 40, 60, 61, 168}

ValidateRestPool == (-1..12) \cup {24}

ValidateDaysPool == {0, 6, 7}

\* a variant that treats the weekly-hours findings as errors
ValidateConstraintsStrict(constraints) ==
    LET max_hours == DictGet(constraints, "max_hours_per_week", 40)
        min_rest == DictGet(constraints, "min_rest_hours", 12)
        findings ==
            (IF max_hours > 60 THEN <<"Max weekly hours exceeds recommended 60h limit">>
             ELSE << >>) \o
            (IF max_hours < 24 THEN <<"Low max hours may lead to understaffing">>
             ELSE << >>) \o
            (IF min_rest < 8 THEN <<"Min rest must be at least 8h">> ELSE << >>)
    IN  [valid |-> findings = << >>, warnings |-> << >>, errors |-> findings]

\* ShiftOptimizer.validate_constraints
ValidateConstraints(constraints) ==
    LET max_hours == DictGet(constraints, "max_hours_per_week", 40)
        min_rest == DictGet(constraints, "min_rest_hours", 12)
        warnings ==
            (IF max_hours > 60 THEN <<"Max weekly hours exceeds recommended 60h limit">>
             ELSE << >>) \o
            (IF max_hours < 24 THEN <<"Low max hours may lead to understaffing">>
             ELSE << >>)
        errors == IF min_rest < 8 THEN <<"Min rest must be at least 8h">> ELSE << >>
    IN  [valid |-> ~(min_rest < 8), warnings |-> warnings, errors |-> errors]

\* the router receives the request and builds the dict
ValidateRequest ==
    /\ validation.stage = "idle"
    /\ \E max_hours_per_week \in ValidateHoursPool, min_rest_hours \in ValidateRestPool,
          max_consecutive_days \in ValidateDaysPool :
          validation' = [validation EXCEPT
                            !.stage = "called",
                            !.constraints =
                                [max_hours_per_week |-> max_hours_per_week,
                                 min_rest_hours |-> min_rest_hours,
                                 max_consecutive_days |-> max_consecutive_days]]
    /\ UNCHANGED <<generate_vars, more_vars, probe, slot_calls, ga, task_cache, jobs, writes,
                   polled>>

\* validate_constraints runs and the router returns its result
ValidateReturns ==
    /\ validation.stage = "called"
    /\ validation' = [validation EXCEPT
                         !.stage = "done",
                         !.result = ValidateConstraints(validation.constraints)]
    /\ UNCHANGED <<generate_vars, more_vars, probe, slot_calls, ga, task_cache, jobs, writes,
                   polled>>

ValidateNext == ValidateRequest \/ ValidateReturns

SpecValidate == Init /\ [][ValidateNext]_vars

----------------------------------------------------------------------------
(* Batch jobs: POST /batch-optimize queues batch_optimize as a background   *)
(* task, GET /optimization-status/{task_id} reads task_cache.  The          *)
(* coroutines run on one event loop, so the code between two awaits is one  *)
(* step.                                                                    *)

\* {"status": "running", "progress": progress}
RunningEntry(progress) == [status |-> "running", progress |-> progress]

\* {"status": "completed", "progress": 100, "result_available": True}
CompletedEntry == [status |-> "completed", progress |-> 100, result_available |-> TRUE]

\* a variant of the progress that counts the periods still to come
ProgressOfRemaining(idx, periods) == ((periods - idx) * 100) \div periods

\* int((idx / len(periods)) * 100)
Progress(idx, periods) == (idx * 100) \div periods

\* a variant of the write that rebuilds the map with the one entry
ReplaceCache(cache, task_id, entry) == [k \in {task_id} |-> entry]

\* self.task_cache[task_id] = entry
WriteEntry(cache, task_id, entry) ==
    [k \in DOMAIN cache \cup {task_id} |-> IF k = task_id THEN entry ELSE cache[k]]

\* batch_optimize_multiple_periods: the task is queued under a new task id
\* and the id is returned
SubmitBatch(task_id) ==
    /\ jobs[task_id].pc = "none"
    /\ \E n \in 0..MaxPeriods :
          jobs' = [jobs EXCEPT ![task_id] = [pc |-> "queued", periods |-> n, idx |-> 0]]
    /\ UNCHANGED <<generate_vars, more_vars, probe, slot_calls, validation, ga, task_cache,
                   writes, polled>>

\* batch_optimize from its first line to its first await, or to its end
\* when there is no period
StartBatch(task_id) ==
    /\ jobs[task_id].pc = "queued"
    /\ IF jobs[task_id].periods = 0
       THEN /\ task_cache' = WriteEntry(WriteEntry(task_cache, task_id, RunningEntry(0)),
                                        task_id, CompletedEntry)
            /\ writes' = [writes EXCEPT ![task_id] = <<RunningEntry(0), CompletedEntry>>]
            /\ jobs' = [jobs EXCEPT ![task_id].pc = "done"]
       ELSE /\ task_cache' = WriteEntry(task_cache, task_id, RunningEntry(0))
            /\ writes' = [writes EXCEPT ![task_id] = <<RunningEntry(0)>>]
            /\ jobs' = [jobs EXCEPT ![task_id].pc = "sleeping", ![task_id].idx = 1]
    /\ UNCHANGED <<generate_vars, more_vars, probe, slot_calls, validation, ga, polled>>

\* asyncio.sleep(0.5) returns: the progress of period idx is written; after
\* the last period the completed entry follows without an await in between
WakeBatch(task_id) ==
    /\ jobs[task_id].pc = "sleeping"
    /\ LET job == jobs[task_id]
           entry == RunningEntry(Progress(job.idx, job.periods))
       IN  IF job.idx = job.periods
           THEN /\ task_cache' = WriteEntry(WriteEntry(task_cache, task_id, entry),
                                            task_id, CompletedEntry)
                /\ writes' = [writes EXCEPT ![task_id] = @ \o <<entry, CompletedEntry>>]
                /\ jobs' = [jobs EXCEPT ![task_id].pc = "done"]
           ELSE /\ task_cache' = WriteEntry(task_cache, task_id, entry)
                /\ writes' = [writes EXCEPT ![task_id] = Append(@, entry)]
                /\ jobs' = [jobs EXCEPT ![task_id].idx = @ + 1]
    /\ UNCHANGED <<generate_vars, more_vars, probe, slot_calls, validation, ga, polled>>

\* get_optimization_status -> get_task_status: the entry of the id, or the
\* default for an id task_cache does not hold
PollStatus(task_id) ==
    /\ polled' = [polled EXCEPT ![task_id] =
                     IF task_id \in DOMAIN task_cache
                     THEN [status |-> task_cache[task_id].status,
                           progress |-> task_cache[task_id].progress,
                           known |-> TRUE]
                     ELSE [status |-> "completed", progress |-> 100, known |-> FALSE]]
    /\ UNCHANGED <<generate_vars, more_vars, probe, slot_calls, validation, ga, task_cache, jobs,
                   writes>>

BatchNext ==
    \E task_id \in TaskIds :
        \/ SubmitBatch(task_id)
        \/ StartBatch(task_id)
        \/ WakeBatch(task_id)
        \/ PollStatus(task_id)

SpecBatch == Init /\ [][BatchNext]_vars

\* Starlette runs a queued background task once the response is sent, and
\* the event loop resumes a coroutine whose sleep has elapsed
SpecBatchLive ==
    /\ Init
    /\ [][BatchNext]_vars
    /\ \A task_id \in TaskIds :
          WF_vars(StartBatch(task_id)) /\ WF_vars(WakeBatch(task_id))

----------------------------------------------------------------------------
(* _genetic_algorithm_optimization called on its own, with any roster and   *)
(* any slots, and the two solvers side by side.                             *)

\* the heuristic reads of the constraints only max_hours_per_week (in its
\* fitness) and the required skills its slots carry
GaConstraintPool ==
    [max_hours_per_week : {16, 40},
     min_rest_hours : {12},
     max_consecutive_days : {1},
     required_skills : RequiredSkillsPool]

\* the call is made
GaCall ==
    /\ ga.stage = "idle"
    /\ \E employees \in Rosters, constraints \in GaConstraintPool, period \in PeriodPool :
          ga' = [stage |-> "running", employees |-> employees,
                 constraints |-> constraints,
                 time_slots |-> CreateTimeSlots(period, constraints),
                 result |-> << >>]
    /\ UNCHANGED <<generate_vars, more_vars, probe, slot_calls, validation, task_cache, jobs,
                   writes, polled>>

\* the generations run and the conversion of best_solution is returned: any
\* chromosome of the gene space can be the best one evaluated (a population
\* of 80 copies of it that no mutation changes)
GaReturns ==
    /\ ga.stage = "running"
    /\ \E best_solution \in Chromosomes(Len(ga.time_slots), ga.employees, ga.time_slots) :
          ga' = [ga EXCEPT
                    !.stage = "returned",
                    !.result = ConvertToShiftAssignments(best_solution, ga.employees,
                                                         ga.time_slots)]
    /\ UNCHANGED <<generate_vars, more_vars, probe, slot_calls, validation, task_cache, jobs,
                   writes, polled>>

\* _crossover on chromosomes shorter than 2 raises ValueError
GaRaises ==
    /\ ga.stage = "running"
    /\ Len(ga.time_slots) < 2
    /\ ga' = [ga EXCEPT !.stage = "raised"]
    /\ UNCHANGED <<generate_vars, more_vars, probe, slot_calls, validation, task_cache, jobs,
                   writes, polled>>

GaNext == GaCall \/ GaReturns \/ GaRaises

SpecGA == Init /\ [][GaNext]_vars

\* one run of either solver: the exact solver (and the fallback behind it)
\* as a /generate request runs them, or the heuristic called on its own
SolversNext ==
    \/ ga.stage = "idle" /\ RejectEmptyRoster
    \/ ga.stage = "idle" /\ StartOptimization
    \/ BuildModel
    \/ ExactSolve
    \/ ExactSolverTimeout
    \/ GeneticFallbackReturns
    \/ GeneticFallbackRaises
    \/ ReturnResponse
    \/ pc = "idle" /\ GaCall
    \/ GaReturns
    \/ GaRaises

SpecSolvers == Init /\ [][SolversNext]_vars

----------------------------------------------------------------------------
(* _check_violations called on its own, with schedules over the slots of a  *)
(* weekend.                                                                 *)

\* the slots of a Saturday and a Sunday (days 5 and 6)
WeekendSlots ==
    CreateTimeSlots([start_date |-> DateOnly(5), end_date |-> DateOnly(6)],
                    NoRequest.constraints)

\* rosters of one to MaxEmployees employees whose own cap is above any
\* number of hours a weekend holds
WeekendRosters ==
    {[i \in 1..n |-> [EmployeeCatalog[1] EXCEPT !.max_hours_per_week = 168]] :
        n \in 1..MaxEmployees}

\* the schedule that gives each slot of the list to the employee `holder`
\* names for it, or to nobody (0)
ScheduleOfHolders(holder, slots) ==
    LET taken == SelectSeq([s \in 1..Len(slots) |-> s], LAMBDA s : holder[s] # 0)
    IN  [i \in 1..Len(taken) |->
            ShiftAssignmentOf(holder[taken[i]], taken[i], slots, 75)]

\* _check_violations(schedule, constraints, employees) is called and returns
CallCheckViolations ==
    /\ violation_call.stage = "idle"
    /\ \E employees \in WeekendRosters :
          \E holder \in [1..Len(WeekendSlots) -> 0..Len(employees)] :
              LET sched == ScheduleOfHolders(holder, WeekendSlots)
              IN  violation_call' =
                      [stage |-> "returned",
                       schedule |-> sched,
                       employees |-> employees,
                       violations |->
                           CheckViolations(sched, NoRequest.constraints, employees)]
    /\ UNCHANGED <<generate_vars, probe, other_vars, goal_runs, loop, evolution>>

ViolationsNext == CallCheckViolations

SpecViolations == Init /\ [][ViolationsNext]_vars

----------------------------------------------------------------------------
(* optimize_shifts run twice on the same employees, constraints and period  *)
(* under two optimize_for tags.  A recommendation is the record of its kind *)
(* and of the two counts its text quotes.                                   *)

\* one entry of the recommendations list
Recommendation(kind, most, least) == [kind |-> kind, most |-> most, least |-> least]

\* max(counts) - min(counts) > limit, the counts being those of the employees
\* that have a shift among `shifts`
Unbalanced(kind, shifts, limit) ==
    LET counts == {CountOf(shifts, shifts[i].employee_id) : i \in 1..Len(shifts)}
        most == CHOOSE c \in counts : \A d \in counts : d <= c
        least == CHOOSE c \in counts : \A d \in counts : c <= d
    IN  IF shifts # << >> /\ most - least > limit
        THEN <<Recommendation(kind, most, least)>>
        ELSE << >>

\* a variant of the recommendations that gives the tag "cost" a text of its own
RecommendationsWithCost(sched, constraints, optimize_for) ==
    <<Recommendation("keep_rest_window", 0, 0), Recommendation("plan_mentoring", 0, 0)>>
    \o (IF optimize_for = "cost"
        THEN <<Recommendation("reduce_overtime_cost", 0, 0)>> ELSE << >>)

\* _generate_recommendations
GenerateRecommendations(sched, constraints, optimize_for) ==
    LET weekend_shifts == SelectSeq(sched, LAMBDA s : Weekday(s.day) >= 5)
        night_shifts == SelectSeq(sched, LAMBDA s : s.slot = "NIGHT")
    IN  <<Recommendation("keep_rest_window", 0, 0), Recommendation("plan_mentoring", 0, 0)>>
        \o (IF optimize_for = "fairness"
            THEN <<Recommendation("prioritise_low_hours", 0, 0)>> ELSE << >>)
        \o (IF DOMAIN constraints.required_skills # {}
            THEN <<Recommendation("track_certificates", 0, 0)>> ELSE << >>)
        \o (IF weekend_shifts = << >>
            THEN <<Recommendation("plan_weekend_backup", 0, 0)>>
            ELSE Unbalanced("weekend_unbalanced", weekend_shifts, 2))
        \o Unbalanced("night_unbalanced", night_shifts, 3)

\* the tag is any string; the three the schema names and one it does not
GoalTagPairs ==
    {<<"efficiency", "fairness">>, <<"efficiency", "cost">>, <<"fairness", "cost">>,
     <<"cost", "speed">>}

GoalRequests ==
    [employees : {r \in Rosters : /\ Len(r) \in 1..2
                                  /\ \A i \in 1..Len(r) : r[i].max_hours_per_week = 24},
     constraints : [max_hours_per_week : {40}, min_rest_hours : {7},
                    max_consecutive_days : {2}, required_skills : RequiredSkillsPool],
     period : {[start_date |-> DateOnly(4), end_date |-> DateOnly(4 + n - 1)] :
                  n \in 0..2}]

\* an optimize_shifts call that left through `except Exception: raise`
RaisedRun(optimize_for, slots, model) ==
    [optimize_for |-> optimize_for, outcome |-> "raised", time_slots |-> slots,
     cp_model |-> model, solver_used |-> "none", response |-> NoResponse,
     recommendations |-> << >>]

\* optimize_shifts, lines 75-97, for the schedule and the solver at hand
ReturnedRun(optimize_for, req, slots, model, sched, solver) ==
    [optimize_for |-> optimize_for, outcome |-> "returned", time_slots |-> slots,
     cp_model |-> model, solver_used |-> solver,
     response |-> BuildResponseOf(sched, req.employees, req.constraints, slots,
                                  [uncovered_slots |-> Cardinality(model.uncovered_slots)]),
     recommendations |-> GenerateRecommendations(sched, req.constraints, optimize_for)]

\* the outcomes of optimize_shifts(employees, constraints, period, optimize_for)
OptimizeShiftsRuns(req, optimize_for) ==
    LET slots == CreateTimeSlots(req.period, req.constraints)
        model == BuildCpModel(req.employees, slots, req.constraints)
        exact == {ExactSchedule(X, model, req.employees, slots) :
                     X \in FeasibleAssignments(model)}
        heuristic == {ConvertToShiftAssignments(c, req.employees, slots) :
                         c \in Chromosomes(Len(slots), req.employees, slots)}
    IN  {RaisedRun(optimize_for, slots, model) :
            x \in {s \in {"INFEASIBLE", "ValueError"} :
                      \/ s = "INFEASIBLE" /\ exact = {}
                      \/ s = "ValueError" /\ << >> \in exact /\ Len(slots) < 2}}
        \cup {ReturnedRun(optimize_for, req, slots, model, sched, "timefold_cp_sat") :
                 sched \in exact \ {<< >>}}
        \cup {ReturnedRun(optimize_for, req, slots, model, sched, "genetic_fallback") :
                 sched \in IF << >> \in exact THEN heuristic ELSE {}}

\* the two calls are about to be made with one request and two tags
GoalCall ==
    /\ goal_runs.stage = "idle"
    /\ \E req \in GoalRequests, tags \in GoalTagPairs :
          goal_runs' = [stage |-> "called", request |-> req, tags |-> tags,
                        runs |-> << >>]
    /\ UNCHANGED <<generate_vars, probe, other_vars, violation_call, loop, evolution>>

\* one call of optimize_shifts runs from its first line to its last
GoalRun ==
    /\ goal_runs.stage = "called"
    /\ Len(goal_runs.runs) < Len(goal_runs.tags)
    /\ \E run \in OptimizeShiftsRuns(goal_runs.request,
                                     goal_runs.tags[Len(goal_runs.runs) + 1]) :
          goal_runs' = [goal_runs EXCEPT !.runs = Append(@, run)]
    /\ UNCHANGED <<generate_vars, probe, other_vars, violation_call, loop, evolution>>

GoalNext == GoalCall \/ GoalRun

SpecGoal == Init /\ [][GoalNext]_vars

----------------------------------------------------------------------------
(* optimize_shifts on the event loop: _run_hybrid_solver hands solve() to   *)
(* the loop's default executor (a thread pool of at least five workers, so  *)
(* a submitted solve never waits for another) and awaits its future.  A     *)
(* step of the loop runs one coroutine from one await to the next.          *)

\* what the loop has completed is noted for every call whose solve() runs
NoteDuring(calls, event, c) ==
    [d \in CallIds |->
        IF d # c /\ calls[d].solve = "running"
        THEN [calls[d] EXCEPT
                 !.during.polls = IF event = "poll" THEN @ + 1 ELSE @,
                 !.during.started = IF event = "start" THEN @ \cup {c} ELSE @,
                 !.during.completed = IF event = "complete" THEN @ \cup {c} ELSE @]
        ELSE calls[d]]

\* a variant in which solve() is called on the loop's own thread: the call
\* runs from its first line to its last in one step
LoopStartsCallInline(c) ==
    /\ loop.calls[c].pc = "none"
    /\ \E result \in {"returned", "failed"} :
          loop' = [loop EXCEPT !.calls[c].pc = result, !.calls[c].solve = "inline"]
    /\ UNCHANGED <<generate_vars, probe, other_vars, violation_call, goal_runs, evolution>>

\* the loop starts the coroutine of a /generate request: optimize_shifts runs
\* to `await loop.run_in_executor(None, self.hybrid_solver.solve, ...)`,
\* which queues solve() for a worker
LoopStartsCall(c) ==
    /\ loop.calls[c].pc = "none"
    /\ loop' = [loop EXCEPT
                   !.calls = [NoteDuring(loop.calls, "start", c) EXCEPT
                                 ![c].pc = "awaiting", ![c].solve = "queued"]]
    /\ UNCHANGED <<generate_vars, probe, other_vars, violation_call, goal_runs, evolution>>

\* a worker thread of the executor takes the queued solve()
WorkerTakesSolve(c) ==
    /\ loop.calls[c].solve = "queued"
    /\ loop' = [loop EXCEPT !.calls[c].solve = "running"]
    /\ UNCHANGED <<generate_vars, probe, other_vars, violation_call, goal_runs, evolution>>

\* solve() returns or raises in its worker, which sets the future
WorkerEndsSolve(c) ==
    /\ loop.calls[c].solve = "running"
    /\ \E result \in {"finished", "raised"} :
          loop' = [loop EXCEPT !.calls[c].solve = result]
    /\ UNCHANGED <<generate_vars, probe, other_vars, violation_call, goal_runs, evolution>>

\* the loop resumes the coroutine whose future is set: the rest of
\* optimize_shifts holds no await that yields, so the call ends in this step
LoopResumesCall(c) ==
    /\ loop.calls[c].pc = "awaiting"
    /\ loop.calls[c].solve \in {"finished", "raised"}
    /\ loop' = [loop EXCEPT
                   !.calls = [NoteDuring(loop.calls, "complete", c) EXCEPT
                                 ![c].pc = IF loop.calls[c].solve = "finished"
                                           THEN "returned" ELSE "failed"]]
    /\ UNCHANGED <<generate_vars, probe, other_vars, violation_call, goal_runs, evolution>>

\* the loop runs a GET /optimization-status request: get_task_status holds
\* no await, the request starts and completes in one step
LoopRunsPoll ==
    /\ loop.polls < MaxPolls
    /\ loop' = [loop EXCEPT !.calls = NoteDuring(loop.calls, "poll", "none"),
                            !.polls = @ + 1]
    /\ UNCHANGED <<generate_vars, probe, other_vars, violation_call, goal_runs, evolution>>

LoopNext ==
    \/ \E c \in CallIds :
          \/ LoopStartsCall(c)
          \/ WorkerTakesSolve(c)
          \/ WorkerEndsSolve(c)
          \/ LoopResumesCall(c)
    \/ LoopRunsPoll

SpecLoop == Init /\ [][LoopNext]_vars

----------------------------------------------------------------------------
(* The generations of _genetic_algorithm_optimization.  A fitness is in     *)
(* millionths; the spreads behind it are rounded down to the thousandth.    *)

\* the employees (positions) a chromosome assigns, in ascending order
Assigned(individual) ==
    SortedSeq({individual[i] : i \in 1..Len(individual)} \ {-1})

\* the genes of a chromosome that hold employee e and satisfy `test`
GenesOf(individual, e, test(_)) ==
    Cardinality({i \in 1..Len(individual) : individual[i] = e /\ test(i)})

\* max(0.0, efficiency * self.efficiency_weight
\*          + fairness * self.fairness_weight - penalties * 0.01):
\* efficiency in millionths, fairness in ten-thousandths, penalties in tenths
WeightedFitness(efficiency, fairness, penalties) ==
    Max(0, (4 * efficiency) \div 10 + 30 * fairness - 1000 * penalties)

\* the three terms of _evaluate_fitness for a chromosome whose assigned
\* employees are `workers` and whose assigned genes are `held`
FitnessTerms(individual, employees, constraints, slots, held, workers) ==
    LET genes == 1..Len(individual)
        over == {i \in held :
                    GenesOf(individual, individual[i], LAMBDA j : j <= i) * shift_hours
                        > constraints.max_hours_per_week}
        hours == [k \in 1..Len(workers) |->
                     GenesOf(individual, workers[k], LAMBDA j : TRUE) * shift_hours]
        nights == [k \in 1..Len(workers) |->
                      GenesOf(individual, workers[k], LAMBDA j : slots[j].slot = "NIGHT")]
        weekenders == SelectSeq(workers,
                          LAMBDA e : GenesOf(individual, e,
                                             LAMBDA j : Weekday(slots[j].date) >= 5) > 0)
        weekends == [k \in 1..Len(weekenders) |->
                        GenesOf(individual, weekenders[k],
                                LAMBDA j : Weekday(slots[j].date) >= 5)]
        assigned_scores == [k \in 1..Len(workers) |->
                               GenesOf(individual, workers[k], LAMBDA j : TRUE)
                                   * employees[workers[k]].performance_score]
        hours_fairness ==
            1000 - SpreadRatio(hours,
                       Len(workers) * (IF constraints.max_hours_per_week = 0 THEN 1
                                       ELSE constraints.max_hours_per_week))
        quality_fairness == DistributionFairness(nights, 300)
        weekend_fairness == DistributionFairness(weekends, 200)
    IN  [\* sum(assigned_scores) / (len(assigned_scores) * 5), scores in tenths
         efficiency |-> (1000000 * SumSeq(assigned_scores)) \div (Cardinality(held) * 50),
         fairness |-> 5 * hours_fairness + 3 * quality_fairness + 2 * weekend_fairness,
         \* penalties, in tenths
         penalties |-> 10 * Cardinality(genes \ held)
                       + 5 * Cardinality({i \in held : slots[i].slot = "NIGHT"})
                       + 3 * Cardinality({i \in held : Weekday(slots[i].date) >= 5})
                       + 20 * Cardinality(over)]

\* _evaluate_fitness (the assigned genes, the assigned employees and the
\* three terms are values computed once, bound from one-element sets)
EvaluateFitness(individual, employees, constraints, slots) ==
    CHOOSE fitness \in
        {IF held = {} THEN 0
         ELSE CHOOSE weighted \in
                  {WeightedFitness(terms.efficiency, terms.fairness, terms.penalties) :
                      terms \in {FitnessTerms(individual, employees, constraints, slots,
                                              held, workers) :
                                    workers \in {Assigned(individual)}}} : TRUE :
            held \in {{i \in 1..Len(individual) : individual[i] >= 0}}} : TRUE

\* for idx, score in enumerate(fitness_scores): if score > best_fitness: ...
RECURSIVE TrackBest(_, _, _, _)
TrackBest(idx, population, fitness_scores, best) ==
    IF idx > Len(population) THEN best
    ELSE TrackBest(idx + 1, population, fitness_scores,
                   IF fitness_scores[idx] > best.fitness
                   THEN [solution |-> population[idx], fitness |-> fitness_scores[idx]]
                   ELSE best)

\* elite_count = max(1, int(self.population_size * self.elitism_rate))
elite_count == Max(1, population_size \div 10)

\* a variant of the elite that takes the chromosomes of lowest fitness
WorstIndices(fitness_scores) ==
    LET before(i, j) == \/ fitness_scores[i] < fitness_scores[j]
                        \/ fitness_scores[i] = fitness_scores[j] /\ i < j
        rank(i) == Cardinality({j \in 1..Len(fitness_scores) : before(j, i)})
    IN  [r \in 1..Min(elite_count, Len(fitness_scores)) |->
            CHOOSE i \in 1..Len(fitness_scores) : rank(i) = r - 1]

\* sorted(range(len(fitness_scores)), key=..., reverse=True)[:elite_count]:
\* the sort is stable, equal scores keep the order of their indices
EliteIndices(fitness_scores) ==
    LET before(i, j) == \/ fitness_scores[i] > fitness_scores[j]
                        \/ fitness_scores[i] = fitness_scores[j] /\ i < j
        rank(i) == Cardinality({j \in 1..Len(fitness_scores) : before(j, i)})
    IN  [r \in 1..Min(elite_count, Len(fitness_scores)) |->
            CHOOSE i \in 1..Len(fitness_scores) : rank(i) = r - 1]

\* _tournament_selection: the indices that can win a tournament of
\* min(tournament_size, len(population)) sampled competitors; among equal
\* scores the winner is the one sampled first, any of them
TournamentWinners(fitness_scores) ==
    LET indices == 1..Len(fitness_scores)
        k == Min(tournament_size, Len(fitness_scores))
    IN  {i \in indices :
            \E competitors \in SUBSET indices :
                /\ Cardinality(competitors) = k
                /\ i \in competitors
                /\ \A j \in competitors : fitness_scores[j] <= fitness_scores[i]}

\* a variant of the crossover that loses the gene at the cut
CrossoverDropsGene(parent1, parent2, point) ==
    <<SubSeq(parent1, 1, point) \o SubSeq(parent2, point + 2, Len(parent2)),
      SubSeq(parent2, 1, point) \o SubSeq(parent1, point + 2, Len(parent1))>>

\* _crossover for the cut `point` = random.randint(1, len(parent1) - 1)
Crossover(parent1, parent2, point) ==
    <<SubSeq(parent1, 1, point) \o SubSeq(parent2, point + 1, Len(parent2)),
      SubSeq(parent2, 1, point) \o SubSeq(parent1, point + 1, Len(parent1))>>

\* _mutate: the chromosomes it can return
Mutations(individual, employees, slots) ==
    IF individual = << >> THEN {individual}
    ELSE UNION {{[individual EXCEPT ![point] = gene] :
                    gene \in GeneValues(slots[point], employees)} :
                point \in 1..Len(individual)}

\* the children one pass of the while loop can append: the parents copied or
\* crossed, then each child mutated or not
Children(parent1, parent2, crossed, employees, slots) ==
    LET pairs == IF crossed
                 THEN {Crossover(parent1, parent2, point) :
                          point \in 1..(Len(parent1) - 1)}
                 ELSE {<<parent1, parent2>>}
        outcomes(child) == {child} \cup Mutations(child, employees, slots)
    IN  UNION {{[pair |-> <<child1, child2>>,
                 mutated |-> child1 # pair[1] \/ child2 # pair[2]] :
                   child1 \in outcomes(pair[1]), child2 \in outcomes(pair[2])} :
               pair \in pairs}

\* the rosters, constraints and periods the heuristic is called with: one
\* Friday, on which the morning has one or two candidates, the afternoon one
\* and the night none; a Saturday nobody is available on; and no day at all
EvolutionInputs ==
    LET on_friday(tags, score) ==
            [availability |-> [d \in {"friday"} |-> tags],
             max_hours_per_week |-> 24, skills |-> {}, performance_score |-> score]
        both == on_friday({"morning", "afternoon"}, 25)
        early == on_friday({"morning"}, 50)
    IN  [employees : {<<both>>, <<both, early>>},
         constraints : [max_hours_per_week : {8, 40}, min_rest_hours : {12},
                        max_consecutive_days : {6}, required_skills : {EmptyDict}],
         period : {[start_date |-> DateOnly(4), end_date |-> DateOnly(4)],
                   [start_date |-> DateOnly(5), end_date |-> DateOnly(5)],
                   [start_date |-> DateOnly(4), end_date |-> DateOnly(3)]}]

\* _initialize_population: every population of population_size chromosomes
Populations(employees, slots) ==
    [1..population_size -> Chromosomes(Len(slots), employees, slots)]

\* _genetic_algorithm_optimization is called and initializes its population
EvolutionCall ==
    /\ evolution.stage = "idle"
    /\ \E input \in EvolutionInputs :
          LET slots == CreateTimeSlots(input.period, input.constraints)
          IN  \E population \in Populations(input.employees, slots) :
                  evolution' = [NoEvolution EXCEPT
                                   !.stage = "evaluate",
                                   !.employees = input.employees,
                                   !.constraints = input.constraints,
                                   !.time_slots = slots,
                                   !.population = population]
    /\ UNCHANGED <<generate_vars, probe, other_vars, violation_call, goal_runs, loop>>

\* the scores of a population: [self._evaluate_fitness(individual, ...) for
\* individual in population]
FitnessScores(population, employees, constraints, slots) ==
    [i \in 1..Len(population) |->
        EvaluateFitness(population[i], employees, constraints, slots)]

\* the head of the generation loop: the population is scored, the best is
\* tracked, the loop is left past the threshold, else the elite is copied
\* (the scores and the best are values computed once, bound from one-element
\* sets)
EvaluateGeneration ==
    /\ evolution.stage = "evaluate"
    /\ \E fitness_scores \in {FitnessScores(evolution.population, evolution.employees,
                                            evolution.constraints,
                                            evolution.time_slots)} :
       \E best \in {TrackBest(1, evolution.population, fitness_scores,
                              [solution |-> evolution.best_solution,
                               fitness |-> evolution.best_fitness])} :
       \E elite_indices \in {EliteIndices(fitness_scores)} :
          evolution' =
               [evolution EXCEPT
                   !.fitness_scores = fitness_scores,
                   !.best_solution = best.solution,
                   !.best_fitness = best.fitness,
                   !.evaluated = @ + 1,
                   !.highest = Max(@, fitness_scores[
                                          CHOOSE i \in 1..Len(fitness_scores) :
                                              \A j \in 1..Len(fitness_scores) :
                                                  fitness_scores[j] <= fitness_scores[i]]),
                   !.new_population =
                       IF best.fitness > early_stop THEN @
                       ELSE [r \in 1..Len(elite_indices) |->
                                evolution.population[elite_indices[r]]],
                   !.applied = IF best.fitness > early_stop THEN @
                               ELSE @ \cup {"elitism"},
                   !.stage = IF best.fitness > early_stop THEN "convert" ELSE "breed"]
    /\ UNCHANGED <<generate_vars, probe, other_vars, violation_call, goal_runs, loop>>

\* a variant of the loop test that waits for the exact size
BreedingDoneAtExactSize(new_population) == Len(new_population) = population_size

\* the while loop is left: not (len(new_population) < self.population_size)
BreedingDone(new_population) == ~(Len(new_population) < population_size)

\* one pass of the while loop: two tournaments, crossover or copies, the
\* mutations, and the two children appended
BreedPair ==
    /\ evolution.stage = "breed"
    /\ ~BreedingDone(evolution.new_population)
    /\ \E i, j \in TournamentWinners(evolution.fitness_scores), crossed \in BOOLEAN :
          /\ crossed => Len(evolution.population[i]) >= 2
          /\ \E children \in Children(evolution.population[i], evolution.population[j],
                                      crossed, evolution.employees,
                                      evolution.time_slots) :
                evolution' =
                    [evolution EXCEPT
                        !.new_population = @ \o children.pair,
                        !.applied = @ \cup (IF crossed THEN {"crossover"} ELSE {})
                                      \cup (IF children.mutated THEN {"mutation"} ELSE {})]
    /\ UNCHANGED <<generate_vars, probe, other_vars, violation_call, goal_runs, loop>>

\* a pass of the while loop that chooses crossover on chromosomes shorter
\* than 2: random.randint(1, len(parent1) - 1) raises ValueError
BreedRaises ==
    /\ evolution.stage = "breed"
    /\ ~BreedingDone(evolution.new_population)
    /\ Len(evolution.time_slots) < 2
    /\ evolution' = [evolution EXCEPT !.stage = "raised"]
    /\ UNCHANGED <<generate_vars, probe, other_vars, violation_call, goal_runs, loop>>

\* population = new_population[: self.population_size], and the next
\* generation, or the end of the loop after the last one
EndGeneration ==
    /\ evolution.stage = "breed"
    /\ BreedingDone(evolution.new_population)
    /\ evolution' =
           [evolution EXCEPT
               !.population = SubSeq(evolution.new_population, 1,
                                     Min(population_size, Len(evolution.new_population))),
               !.new_population = << >>,
               !.generation = @ + 1,
               !.stage = IF evolution.generation + 1 < generations
                         THEN "evaluate" ELSE "convert"]
    /\ UNCHANGED <<generate_vars, probe, other_vars, violation_call, goal_runs, loop>>

\* `if not best_solution: return []`, else the conversion of best_solution
EvolutionReturns ==
    /\ evolution.stage = "convert"
    /\ evolution' =
           [evolution EXCEPT
               !.stage = "returned",
               !.result = IF evolution.best_solution = << >> THEN << >>
                          ELSE ConvertToShiftAssignments(evolution.best_solution,
                                                         evolution.employees,
                                                         evolution.time_slots)]
    /\ UNCHANGED <<generate_vars, probe, other_vars, violation_call, goal_runs, loop>>

EvolutionNext ==
    \/ EvolutionCall
    \/ EvaluateGeneration
    \/ BreedPair
    \/ BreedRaises
    \/ EndGeneration
    \/ EvolutionReturns

SpecEvolution == Init /\ [][EvolutionNext]_vars

\* the function runs without an await: once entered, each of its steps is
\* taken
SpecEvolutionLive == Init /\ [][EvolutionNext]_vars /\ WF_vars(EvolutionNext)

----------------------------------------------------------------------------
(* Properties *)

\* feasibility as the design states it: the slot's shift type is among the
\* employee's availability tags for the slot's weekday, and the slot has no
\* required skills or the employee has one of them (names compared without
\* regard to case)
FeasibleByDefinition(employee, slot) ==
    /\ \E key \in DOMAIN employee.availability :
          /\ Lower(key) = Lower(DayNameOf(slot.date))
          /\ \E tag \in employee.availability[key] : Lower(tag) = Lower(slot.slot)
    /\ \/ slot.required_skills = {}
       \/ \E skill \in slot.required_skills : skill \in employee.skills

\* the exact solver has returned a schedule to optimize_shifts
ExactReturned == solve_status = "FEASIBLE" /\ solver_used = "timefold_cp_sat"

\* the number of assignments of an employee in a schedule
AssignmentsOf(sched, e) ==
    Cardinality({i \in 1..Len(sched) : sched[i].employee_id = e})

\* the number of assignments a schedule holds for a slot
AssignmentsFor(sched, slot) ==
    Cardinality({i \in 1..Len(sched) :
                    sched[i].day = slot.date /\ sched[i].slot = slot.slot})

\* the slots no employee of the roster is feasible for
SlotsWithoutFeasibleEmployee ==
    {s \in 1..Len(time_slots) :
        \A e \in 1..Len(request.employees) :
            ~FeasibleByDefinition(request.employees[e], time_slots[s])}

\* C1: in every schedule optimize_shifts returns, each employee's number of
\* assignments times 8 hours is at most the smaller of the employee's and the
\* constraint's weekly cap.
C1_HoursWithinCap ==
    http_status = 200 =>
        \A e \in 1..Len(request.employees) :
            AssignmentsOf(response.schedule, e) * 8
                <= Min(request.employees[e].max_hours_per_week,
                       request.constraints.max_hours_per_week)

\* C1 witness: a returned schedule in which an employee works exactly the
\* constraint's cap, which is below the employee's own.
C1_Witness ==
    /\ http_status = 200
    /\ \E e \in 1..Len(request.employees) :
          /\ request.constraints.max_hours_per_week
                 < request.employees[e].max_hours_per_week
          /\ AssignmentsOf(response.schedule, e) * 8
                 = request.constraints.max_hours_per_week

\* hours from midnight of day 0 to the start and to the end of an assignment
AbsStart(a) == a.day * 24 + ShiftStart(a.slot)

AbsEnd(a) == a.day * 24 + ShiftEnd(a.slot)

\* C2: in every schedule the exact solver returns, any two shifts of one
\* employee, on the same date or on different dates, are at least
\* min_rest_hours apart (end of the earlier to start of the later).
C2_RestBetweenAnyTwoShifts ==
    ExactReturned =>
        \A i, j \in 1..Len(schedule) :
            (/\ schedule[i].employee_id = schedule[j].employee_id
             /\ AbsStart(schedule[i]) < AbsStart(schedule[j]))
            => AbsStart(schedule[j]) - AbsEnd(schedule[i])
                   >= request.constraints.min_rest_hours

\* C3: in every schedule the exact solver returns, no employee has an
\* assignment on each of max_consecutive_days + 1 consecutive dates, for
\* every max_consecutive_days the schema accepts, 0 included.
C3_ConsecutiveDaysBounded ==
    ExactReturned =>
        \A e \in 1..Len(request.employees) :
            \A d \in request.period.start_date.date..request.period.end_date.date :
                ~ \A k \in 0..request.constraints.max_consecutive_days :
                      \E i \in 1..Len(schedule) :
                          /\ schedule[i].employee_id = e
                          /\ schedule[i].day = d + k

\* C4: in every schedule the exact solver returns, a slot with a feasible
\* employee has exactly one assignment and a slot without one has none.
C4_ExactlyOnePerFeasibleSlot ==
    ExactReturned =>
        \A s \in 1..Len(time_slots) :
            AssignmentsFor(schedule, time_slots[s])
                = IF \E e \in 1..Len(request.employees) :
                         FeasibleByDefinition(request.employees[e], time_slots[s])
                  THEN 1 ELSE 0

\* C4 witness: a returned schedule for slots of which one has two feasible
\* employees and another has none.
C4_Witness ==
    /\ ExactReturned
    /\ schedule # << >>
    /\ SlotsWithoutFeasibleEmployee # {}
    /\ \E s \in 1..Len(time_slots) :
          Cardinality({e \in 1..Len(request.employees) :
              FeasibleByDefinition(request.employees[e], time_slots[s])}) >= 2

\* C5: when some slot has no feasible employee, the exact solver's
\* uncovered-slot count is the number of such slots, and the response counts
\* at least one constraint violation and lists an uncovered-slot entry.
C5_UncoveredSlotsReported ==
    /\ ExactReturned =>
           solver_violations.uncovered_slots = Cardinality(SlotsWithoutFeasibleEmployee)
    /\ (http_status = 200 /\ SlotsWithoutFeasibleEmployee # {}) =>
           /\ response.metrics.constraint_violations >= 1
           /\ \E i \in 1..Len(response.violations) :
                  response.violations[i].kind = "uncovered_slots"

\* C6: when the exact solver finds its model infeasible, optimize_shifts runs
\* the heuristic solver and returns a response; the call does not fail.
C6_InfeasibleFallsBack ==
    solve_status = "INFEASIBLE" =>
        /\ solver_used = "genetic_fallback"
        /\ http_status # 500

\* C7: a request with an empty roster ends as HTTP 400, and neither slot
\* generation nor a solver has run.
C7_EmptyRosterIsClientError ==
    (pc = "done" /\ request.employees = << >>) =>
        /\ http_status = 400
        /\ time_slots = << >>
        /\ solve_status = "none"

\* C8: a request whose min_rest_hours is below 8 is rejected as a client
\* error before slot generation or any solver runs.
C8_ShortRestRejected ==
    (request.employees # << >> /\ request.constraints.min_rest_hours < 8) =>
        /\ pc = "done"
        /\ http_status = 400
        /\ cp_model = NoModel
        /\ solve_status = "none"

\* C9: when both solvers produce an empty schedule for a period with a slot,
\* optimize_shifts returns a response whose schedule is empty and whose
\* violations list is not.
C9_EmptyPlanListsViolations ==
    (/\ pc = "done"
     /\ solver_used = "genetic_fallback"
     /\ schedule = << >>
     /\ Len(time_slots) >= 1) =>
        /\ http_status = 200
        /\ response.schedule = << >>
        /\ response.violations # << >>

\* C10: on every slot _create_time_slots produces, the exact solver's filter
\* and the heuristic's filter return the same boolean, and it is true exactly
\* when the pair is feasible as the design states it.
C10_FiltersAgree ==
    \A i \in 1..Len(probe.results) :
        /\ probe.results[i].exact = probe.results[i].heuristic
        /\ probe.results[i].exact = FeasibleByDefinition(probe.employee, probe.slots[i])

\* C10 witness: both filters have accepted a slot that requires skills and
\* rejected, for want of a skill, a slot the employee is available for.
C10_Witness ==
    /\ \E i \in 1..Len(probe.results) :
          /\ probe.results[i].exact
          /\ probe.results[i].heuristic
          /\ probe.slots[i].required_skills # {}
    /\ \E j \in 1..Len(probe.results) :
          /\ ~probe.results[j].exact
          /\ ~probe.results[j].heuristic
          /\ FeasibleByDefinition(
                 [probe.employee EXCEPT !.skills = probe.slots[j].required_skills],
                 probe.slots[j])

\* a call of _create_time_slots whose period is given as two dates, the
\* first not after the second
DatesInOrder(call) ==
    /\ call.period.start_date.hour = 0
    /\ call.period.end_date.hour = 0
    /\ call.period.start_date.date <= call.period.end_date.date

C12_CoverageIsExactRatio ==
    http_status = 200 =>
        /\ response.metrics.coverage_percentage * Len(time_slots)
               = Len(response.schedule) * 100 * 100
        /\ response.metrics.coverage_percentage <= 100 * 100
        /\ Len(response.schedule) <= Len(time_slots)

\* C12, amended: coverage_percentage is that ratio rounded to two decimals.
C12_CoverageIsRoundedRatio ==
    http_status = 200 =>
        /\ LET exact == Len(response.schedule) * 100 * 100
               total == Len(time_slots)
               reported == response.metrics.coverage_percentage
           IN  /\ 2 * (reported * total - exact) <= total
               /\ 2 * (exact - reported * total) <= total
        /\ response.metrics.coverage_percentage <= 100 * 100
        /\ Len(response.schedule) <= Len(time_slots)

\* C12 witness: a response that covers some but not all of its slots, the
\* ratio having more than two decimals.
C12_Witness ==
    /\ http_status = 200
    /\ response.schedule # << >>
    /\ Len(response.schedule) < Len(time_slots)
    /\ (Len(response.schedule) * 100 * 100) % Len(time_slots) # 0

\* C13: in every response of optimize_shifts, from the exact solver or from
\* the fallback, efficiency_score and fairness_score lie in [0, 1] and the
\* confidence of every assignment lies in [0.5, 1.0].
C13_ScoresInRange ==
    http_status = 200 =>
        /\ response.metrics.efficiency_score \in 0..1000
        /\ response.metrics.fairness_score \in 0..1000
        /\ \A i \in 1..Len(response.schedule) :
              response.schedule[i].confidence \in 50..100

\* C13 witness: a response in which an employee of performance 0 holds an
\* assignment (performance / 5 + 0.2 is below the range), another assignment
\* sits at the ceiling, and neither score is 1.
C13_Witness ==
    /\ http_status = 200
    /\ \E i \in 1..Len(response.schedule) :
          /\ request.employees[response.schedule[i].employee_id].performance_score = 0
          /\ response.schedule[i].confidence = 55
    /\ \E i \in 1..Len(response.schedule) : response.schedule[i].confidence = 95
    /\ response.metrics.efficiency_score \in 1..999
    /\ response.metrics.fairness_score \in 1..999

\* C14: validate_constraints answers valid = false with a non-empty errors
\* list exactly when min_rest_hours < 8; max_hours_per_week above 60 or below
\* 24 adds a warning and nothing else; the call generates no slots, runs no
\* solver and leaves the optimizer's state as it was.
C14_ValidationVerdict ==
    validation.stage = "done" =>
        LET result == validation.result
            constraints == validation.constraints
        IN  /\ (~result.valid /\ result.errors # << >>)
                   <=> constraints.min_rest_hours < 8
            /\ result.valid <=> result.errors = << >>
            /\ result.warnings # << >>
                   <=> (\/ constraints.max_hours_per_week > 60
                        \/ constraints.max_hours_per_week < 24)
            /\ time_slots = << >>
            /\ cp_model = NoModel
            /\ solve_status = "none"
            /\ steps = << >>
            /\ ga = NoGa
            /\ task_cache = EmptyDict

\* C14 witness: a validation that is valid and carries a warning, the rest
\* being exactly 8 hours and the weekly hours below 24.
C14_Witness ==
    /\ validation.stage = "done"
    /\ validation.constraints.min_rest_hours = 8
    /\ validation.constraints.max_hours_per_week < 24
    /\ validation.result.valid
    /\ validation.result.warnings # << >>

\* the entries a batch job over n periods is to write, in order
ExpectedWrites(n) ==
    <<[status |-> "running", progress |-> 0]>> \o
    [i \in 1..n |-> [status |-> "running", progress |-> (i * 100) \div n]] \o
    <<[status |-> "completed", progress |-> 100, result_available |-> TRUE]>>

\* the entries written so far are the first entries of those expected
WritesAsExpected(task_id) ==
    LET expected == ExpectedWrites(jobs[task_id].periods)
        written == writes[task_id]
    IN  /\ Len(written) <= Len(expected)
        /\ \A i \in 1..Len(written) : written[i] = expected[i]
        /\ \A i \in 1..(Len(written) - 1) : written[i].progress <= written[i + 1].progress
        /\ \A i \in 1..Len(written) :
              (i = jobs[task_id].periods + 1 /\ i > 1) => written[i].progress = 100

\* the job of the task id has written its completed entry
WroteCompleted(task_id) ==
    /\ writes[task_id] # << >>
    /\ writes[task_id][Len(writes[task_id])].status = "completed"

\* C15: a batch job over n periods writes, for its task id, running with
\* progress 0, then running with int(i / n * 100) for i = 1..n, then
\* completed with progress 100; every job that was submitted eventually
\* writes completed, for n = 0 too; and every poll of the id answers running
\* or completed with a progress in 0..100.
C15_BatchProgressEntries ==
    /\ [](\A task_id \in TaskIds :
             /\ WritesAsExpected(task_id)
             /\ polled[task_id] # NoPoll =>
                    /\ polled[task_id].status \in {"running", "completed"}
                    /\ polled[task_id].progress \in 0..100)
    /\ \A task_id \in TaskIds :
          (jobs[task_id].pc # "none") ~> WroteCompleted(task_id)

\* C15 witness: a job over three periods has written all its entries, a poll
\* of it answered running in between, and a job without periods has
\* completed.
C15_Witness ==
    \E a, b \in TaskIds :
        /\ jobs[a].periods = 3
        /\ Len(writes[a]) = 5
        /\ WroteCompleted(a)
        /\ polled[a].status = "running"
        /\ polled[a].progress = 66
        /\ jobs[b].pc = "done"
        /\ jobs[b].periods = 0
        /\ WroteCompleted(b)

\* C16: with several batch jobs in flight under distinct task ids, a step
\* changes the entry of a task id only if the job of that id wrote in it, no
\* entry is ever removed, and the progress polled for a job in flight or
\* finished never drops from one poll to the next.
C16_JobsWriteOwnEntryOnly ==
    [][\A task_id \in TaskIds :
          /\ task_id \in DOMAIN task_cache => task_id \in DOMAIN task_cache'
          /\ writes'[task_id] = writes[task_id] =>
                 /\ task_id \in DOMAIN task_cache' => task_id \in DOMAIN task_cache
                 /\ task_id \in DOMAIN task_cache =>
                        task_cache'[task_id] = task_cache[task_id]
          /\ (polled[task_id].known /\ polled'[task_id].known) =>
                 polled'[task_id].progress >= polled[task_id].progress]_vars

\* C16 witness: two jobs are between two of their awaits, each with its own
\* progress in task_cache, and a poll has read one of them.
C16_Witness ==
    \E a, b \in TaskIds :
        /\ a # b
        /\ jobs[a].pc = "sleeping"
        /\ jobs[b].pc = "sleeping"
        /\ task_cache[a].progress > 0
        /\ task_cache[b].progress > task_cache[a].progress
        /\ polled[a].known
        /\ polled[a].progress = task_cache[a].progress

\* the slot of time_slots an assignment was made for
SlotOf(assignment, slots) ==
    CHOOSE s \in 1..Len(slots) :
        slots[s].date = assignment.day /\ slots[s].slot = assignment.slot

\* every assignment of a schedule pairs an employee with a slot of the list
\* that the employee is feasible for
AllPairsFeasible(sched, employees, slots) ==
    \A i \in 1..Len(sched) :
        /\ \E s \in 1..Len(slots) :
              slots[s].date = sched[i].day /\ slots[s].slot = sched[i].slot
        /\ FeasibleByDefinition(employees[sched[i].employee_id],
                                slots[SlotOf(sched[i], slots)])

\* C17: every assignment of a schedule either solver returns pairs an
\* employee with a slot whose shift type is in the employee's availability
\* for the slot's weekday and whose required skills, if any, the employee
\* shares.
C17_AssignmentsPassFilter ==
    /\ AllPairsFeasible(schedule, request.employees, time_slots)
    /\ AllPairsFeasible(ga.result, ga.employees, ga.time_slots)

\* C17 witness: the heuristic, called on its own, has returned an assignment
\* for an employee who is available only for part of the slots, and left a
\* slot open for which an available employee lacks the required skill.
C17_Witness ==
    /\ ga.stage = "returned"
    /\ ga.result # << >>
    /\ \E s \in 1..Len(ga.time_slots) :
          /\ ga.time_slots[s].required_skills # {}
          /\ \A i \in 1..Len(ga.result) :
                ~(ga.result[i].day = ga.time_slots[s].date
                  /\ ga.result[i].slot = ga.time_slots[s].slot)
          /\ \E e \in 1..Len(ga.employees) :
                FeasibleByDefinition(
                    [ga.employees[e] EXCEPT !.skills = ga.time_slots[s].required_skills],
                    ga.time_slots[s])

\* the (employee, slot) pairs a schedule assigns
PairsOf(sched, slots) ==
    {<<sched[i].employee_id, SlotOf(sched[i], slots)>> : i \in 1..Len(sched)}

\* C20: every non-empty schedule _genetic_algorithm_optimization returns
\* satisfies the hard constraints of the exact solver's model for the same
\* employees, slots and constraints: the hours cap of every employee, the
\* minimum rest and the maximum of consecutive working days.
C20_HeuristicMeetsHardConstraints ==
    (ga.stage = "returned" /\ ga.result # << >>) =>
        LinearConstraints(PairsOf(ga.result, ga.time_slots),
                          BuildCpModel(ga.employees, ga.time_slots, ga.constraints))

\* optimize_shifts has run its heuristic solver
HeuristicRan ==
    \E i \in 1..Len(steps) : steps[i] = "genetic_algorithm_optimization"

\* a fault has left optimize_shifts through its except block
Faulted == \E i \in 1..Len(steps) : steps[i] = "except"

\* the number of times a step was entered
TimesEntered(step) == Cardinality({i \in 1..Len(steps) : steps[i] = step})

\* C18: a fault raised inside either solver aborts the call of
\* optimize_shifts: no response is returned for it, the generate endpoint
\* reports a service-level failure (500), nothing runs after the fault and no
\* solver is run a second time.
C18_FaultAbortsCall ==
    Faulted =>
        /\ pc = "done"
        /\ response = NoResponse
        /\ http_status = 500
        /\ steps[Len(steps)] = "except"
        /\ TimesEntered("except") = 1
        /\ TimesEntered("run_hybrid_solver") = 1
        /\ TimesEntered("genetic_algorithm_optimization") <= 1

\* C18 witness: the exact solver returned an empty schedule and the fault
\* was raised inside the heuristic solver.
C18_Witness ==
    /\ Faulted
    /\ HeuristicRan
    /\ solve_status = "FEASIBLE"

\* the order of the steps of optimize_shifts, without and with the heuristic
StepOrders ==
    {<<"create_time_slots", "run_hybrid_solver", "calculate_metrics",
       "generate_recommendations", "check_violations">>,
     <<"create_time_slots", "run_hybrid_solver", "genetic_algorithm_optimization",
       "calculate_metrics", "generate_recommendations", "check_violations">>}

\* the steps entered so far, a fault apart, are the first steps of one order
StepsInOrder ==
    LET entered == SelectSeq(steps, LAMBDA step : step # "except")
    IN  \E order \in StepOrders :
            /\ Len(entered) <= Len(order)
            /\ \A i \in 1..Len(entered) : entered[i] = order[i]

\* what a step of optimize_shifts may do: the heuristic starts only on an
\* empty schedule of the exact solver, a non-empty one is kept and the
\* heuristic stays out, and the response carries the schedule at hand, the
\* last three steps having run in their order
HeuristicOnlyOnEmpty ==
    /\ (HeuristicRan' /\ ~HeuristicRan) =>
           (solve_status = "FEASIBLE" /\ schedule = << >>)
    /\ (solve_status = "FEASIBLE" /\ schedule # << >> /\ ~HeuristicRan) =>
           (~HeuristicRan' /\ schedule' = schedule)
    /\ (http_status' = 200 /\ http_status # 200) =>
           /\ response'.schedule = schedule
           /\ steps' = steps \o <<"calculate_metrics", "generate_recommendations",
                                  "check_violations">>

\* C19: optimize_shifts generates the slots, runs the exact solver, runs the
\* heuristic solver only if the exact solver's schedule is empty, and then
\* computes metrics, recommendations and violations; a non-empty schedule of
\* the exact solver is returned as it is, without the heuristic, also when
\* it leaves slots uncovered.
C19_StepOrder == [](StepsInOrder) /\ [][HeuristicOnlyOnEmpty]_vars

\* C19 witness: the exact solver's schedule, which leaves a slot uncovered,
\* has been returned and the heuristic has not run.
C19_Witness ==
    /\ http_status = 200
    /\ ~HeuristicRan
    /\ response.schedule # << >>
    /\ Len(response.schedule) < Len(time_slots)
    /\ Len(steps) = 5

\* C29: a poll of a task id answers completed only after the job of that id
\* has written its completed entry; a poll made before the job's first
\* write, or of an id no job was submitted for, does not answer completed.
C29_CompletedOnlyAfterFinalWrite ==
    \A task_id \in TaskIds :
        polled[task_id].status = "completed" => WroteCompleted(task_id)

\* the period of the request holds no day: its end lies before its start
ZeroSlotPeriod ==
    FromIsoFormat(request.period.end_date) < FromIsoFormat(request.period.start_date)

\* C30: a /generate request with a roster and a period whose end date lies
\* before its start date, once the exact solver has returned, ends with a
\* response that carries an empty schedule and a coverage of 0, not with a
\* failure.
C30_ZeroSlotPeriodAnswered ==
    (/\ pc = "done"
     /\ request.employees # << >>
     /\ ZeroSlotPeriod
     /\ solve_status = "FEASIBLE") =>
        /\ http_status = 200
        /\ response.schedule = << >>
        /\ response.metrics.coverage_percentage = 0

\* no employee of the roster is feasible for any slot of the period
NoFeasiblePair == SlotsWithoutFeasibleEmployee = 1..Len(time_slots)

\* C27: the exact solver hands optimize_shifts an empty schedule exactly
\* when no (employee, slot) pair is feasible, and it never reports such a
\* problem infeasible; whenever the heuristic runs inside optimize_shifts it
\* has no option for any slot, its schedule is empty and so is the schedule
\* of the response.
C27_FallbackAddsNothing ==
    /\ pc = "solved" => (schedule = << >> <=> NoFeasiblePair)
    /\ solve_status = "INFEASIBLE" => ~NoFeasiblePair
    /\ HeuristicRan =>
           /\ NoFeasiblePair
           /\ \A s \in 1..Len(time_slots) : Options(time_slots[s], request.employees) = {}
           /\ schedule = << >>
           /\ http_status = 200 => response.schedule = << >>

\* C27 witness: a roster that is available on another day than that of the
\* period; the heuristic ran over the three slots of the day and the
\* response carries an empty schedule.
C27_Witness ==
    /\ HeuristicRan
    /\ http_status = 200
    /\ Len(time_slots) = 3
    /\ \E e \in 1..Len(request.employees) :
          DOMAIN request.employees[e].availability # {}
    /\ response.schedule = << >>

\* the number of weekend shifts a schedule gives an employee
WeekendShiftsOf(sched, e) ==
    Cardinality({i \in 1..Len(sched) :
                    sched[i].employee_id = e /\ Weekday(sched[i].day) >= 5})

\* the weekend shifts of a schedule
WeekendShiftsIn(sched) ==
    Cardinality({i \in 1..Len(sched) : Weekday(sched[i].day) >= 5})

\* C25: _check_violations emits a weekend warning for an employee exactly
\* when the employee's weekend-shift count exceeds, by more than 2, the
\* weekend shifts of the schedule divided by the number of employees of the
\* roster.
C25_WarningAgainstRosterAverage ==
    violation_call.stage = "returned" =>
        \A e \in 1..Len(violation_call.employees) :
            (\E i \in 1..Len(violation_call.violations) :
                /\ violation_call.violations[i].kind = "excessive_weekend_shifts"
                /\ violation_call.violations[i].employee = e)
            <=> (WeekendShiftsOf(violation_call.schedule, e)
                     * Len(violation_call.employees)
                 > WeekendShiftsIn(violation_call.schedule)
                     + 2 * Len(violation_call.employees))

\* both optimize_shifts calls of the pair have returned a response
BothReturned ==
    /\ Len(goal_runs.runs) = 2
    /\ \A i \in 1..2 : goal_runs.runs[i].outcome = "returned"

\* C24: two optimize_shifts runs on the same employees, constraints and
\* period under two optimization-goal tags use the same slots, the same
\* solver model and the same solver; when the solver hands both the same
\* schedule, their metrics and violations are the same, and so are their
\* recommendations unless one of the tags is "fairness": "cost" is answered
\* as "efficiency" is.
C24_GoalTagOnlyInRecommendations ==
    BothReturned =>
        LET first == goal_runs.runs[1]
            second == goal_runs.runs[2]
        IN  /\ first.time_slots = second.time_slots
            /\ first.cp_model = second.cp_model
            /\ first.solver_used = second.solver_used
            /\ first.response.schedule = second.response.schedule =>
                   /\ first.response.metrics = second.response.metrics
                   /\ first.response.violations = second.response.violations
                   /\ ("fairness" \notin {first.optimize_for, second.optimize_for}) =>
                          first.recommendations = second.recommendations

\* C24 witness: a run under "fairness" and a run under "cost" returned the
\* same non-empty schedule with a weekend shift, and their recommendations
\* differ.
C24_Witness ==
    /\ BothReturned
    /\ goal_runs.runs[1].optimize_for = "fairness"
    /\ goal_runs.runs[2].optimize_for = "cost"
    /\ goal_runs.runs[1].response.schedule = goal_runs.runs[2].response.schedule
    /\ \E i \in 1..Len(goal_runs.runs[1].response.schedule) :
          Weekday(goal_runs.runs[1].response.schedule[i].day) >= 5
    /\ goal_runs.runs[1].recommendations # goal_runs.runs[2].recommendations
    /\ goal_runs.runs[1].response.metrics.total_hours_assigned > 0

\* an optimize_shifts call has ended, with a response or with a fault
CallEnded(call) == call.pc \in {"returned", "failed"}

\* a call ends only in a step that resumes it from its await, after its own
\* solve() has ended in a worker
ResumedAfterOwnSolve ==
    \A c \in CallIds :
        (CallEnded(loop'.calls[c]) /\ ~CallEnded(loop.calls[c])) =>
            /\ loop.calls[c].pc = "awaiting"
            /\ loop.calls[c].solve \in {"finished", "raised"}
            /\ loop'.calls[c].solve = loop.calls[c].solve

\* C26: an optimize_shifts call never runs its solve() in a step of the
\* event loop: the call waits from the moment the solve is queued for a
\* worker and ends only in a later step, taken after its own solve has
\* ended; in between the loop runs status polls and other optimize_shifts
\* calls, which can start and end while the solve is still running.
C26_LoopStaysFree ==
    /\ [](\A c \in CallIds :
             loop.calls[c].solve \in {"queued", "running"} => loop.calls[c].pc = "awaiting")
    /\ [][ResumedAfterOwnSolve]_vars

\* C26 witness: while the solve of one call is still running in its worker,
\* the loop has completed two status polls and has started and completed
\* the other call.
C26_Witness ==
    \E c, d \in CallIds :
        /\ c # d
        /\ loop.calls[c].pc = "awaiting"
        /\ loop.calls[c].solve = "running"
        /\ loop.calls[c].during.polls = 2
        /\ d \in loop.calls[c].during.started
        /\ d \in loop.calls[c].during.completed
        /\ loop.calls[d].pc = "returned"

\* a chromosome has one gene per slot; the gene of a slot that has a feasible
\* employee is such an employee, the gene of any other slot is -1
WellFormed(chromosome, employees, slots) ==
    /\ Len(chromosome) = Len(slots)
    /\ \A s \in 1..Len(slots) :
          IF \E e \in 1..Len(employees) : FeasibleByDefinition(employees[e], slots[s])
          THEN /\ chromosome[s] \in 1..Len(employees)
               /\ FeasibleByDefinition(employees[chromosome[s]], slots[s])
          ELSE chromosome[s] = -1

\* C21: in every generation of the heuristic, after elitism copies,
\* crossovers and mutations, every chromosome of the population and of the
\* population being bred has exactly one gene per slot, each gene being an
\* employee that is feasible for the slot, or -1, and -1 only for a slot
\* without a feasible employee.
C21_ChromosomesWellFormed ==
    /\ \A i \in 1..Len(evolution.population) :
          WellFormed(evolution.population[i], evolution.employees, evolution.time_slots)
    /\ \A i \in 1..Len(evolution.new_population) :
          WellFormed(evolution.new_population[i], evolution.employees,
                     evolution.time_slots)
    /\ evolution.best_solution # << >> =>
          WellFormed(evolution.best_solution, evolution.employees, evolution.time_slots)

\* C21 witness: a second generation is about to be evaluated whose
\* population came out of an elitism copy, a crossover and a mutation and
\* holds two different chromosomes.
C21_Witness ==
    /\ evolution.stage = "evaluate"
    /\ evolution.generation = 1
    /\ evolution.applied = {"elitism", "crossover", "mutation"}
    /\ \E i, j \in 1..Len(evolution.population) :
          evolution.population[i] # evolution.population[j]
    /\ \E s \in 1..Len(evolution.time_slots) : evolution.population[1][s] = -1

\* the highest fitness among the chromosomes of a population
BestFitnessIn(population) ==
    LET scores == {EvaluateFitness(population[i], evolution.employees,
                                   evolution.constraints, evolution.time_slots) :
                      i \in 1..Len(population)}
    IN  CHOOSE x \in scores : \A y \in scores : y <= x

\* how often a chromosome occurs at the given indices of a population
Occurrences(chromosome, population, indices) ==
    Cardinality({i \in indices : population[i] = chromosome})

\* a generation ends: elite_count chromosomes that no other of the
\* population outscores are in the next population, as often as among those
\* elite_count, and the best fitness of the next population is no lower
ElitesKept ==
    evolution'.generation = evolution.generation + 1 =>
        /\ \E top \in SUBSET (1..Len(evolution.population)) :
              /\ Cardinality(top) = elite_count
              /\ \A i \in top, j \in (1..Len(evolution.population)) \ top :
                    evolution.fitness_scores[j] <= evolution.fitness_scores[i]
              /\ \A i \in top :
                    Occurrences(evolution.population[i], evolution.population, top)
                        <= Occurrences(evolution.population[i], evolution'.population,
                                       1..Len(evolution'.population))
        /\ BestFitnessIn(evolution'.population) >= BestFitnessIn(evolution.population)

\* C22: every generation starts with a population of exactly
\* population_size chromosomes; the elite_count highest-fitness chromosomes
\* of a generation are in the next generation unchanged, so the best fitness
\* of the population never drops from one generation to the next; and the
\* chromosome whose conversion is returned has the highest fitness
\* evaluated in any generation.
C22_ElitismKeepsBest ==
    /\ [](evolution.stage \in {"evaluate", "breed"} =>
              Len(evolution.population) = population_size)
    /\ [][ElitesKept]_vars
    /\ [](evolution.stage = "returned" =>
              /\ evolution.best_fitness = evolution.highest
              /\ EvaluateFitness(evolution.best_solution, evolution.employees,
                                 evolution.constraints, evolution.time_slots)
                     = evolution.highest
              /\ evolution.result =
                     ConvertToShiftAssignments(evolution.best_solution,
                                               evolution.employees, evolution.time_slots))

\* C22 witness: the heuristic has returned a schedule after crossovers and
\* mutations, and its final population holds a chromosome of lower fitness
\* than the one returned.
C22_Witness ==
    /\ evolution.stage = "returned"
    /\ evolution.result # << >>
    /\ {"crossover", "mutation"} \subseteq evolution.applied
    /\ \E i \in 1..Len(evolution.population) :
          EvaluateFitness(evolution.population[i], evolution.employees,
                          evolution.constraints, evolution.time_slots)
              < evolution.best_fitness

\* the heuristic has ended, with a result or with a fault
EvolutionEnded == evolution.stage \in {"returned", "raised"}

\* what a step of the loops may do: the generation loop is left for the
\* conversion before its last generation exactly when the best fitness has
\* passed the threshold, and a population that has reached population_size
\* ends the breeding loop
LoopsEnd ==
    /\ (evolution.stage = "evaluate" /\ evolution'.stage # "evaluate") =>
           (evolution'.stage = "convert" <=> evolution'.best_fitness > early_stop)
    /\ (evolution.stage = "breed" /\ Len(evolution.new_population) >= population_size
        /\ evolution' # evolution) =>
           /\ evolution'.generation = evolution.generation + 1
           /\ Len(evolution'.population) = population_size

\* C23: the heuristic always ends: it evaluates at most `generations`
\* generations, the breeding loop of a generation ends once the new
\* population has reached population_size, and the generation loop stops at
\* the first generation in which the best fitness seen exceeds 0.96.
C23_EvolutionTerminates ==
    /\ [](/\ evolution.evaluated <= generations
          /\ evolution.generation <= generations
          /\ Len(evolution.new_population) <= population_size + 1)
    /\ [][LoopsEnd]_vars
    /\ (evolution.stage # "idle") ~> EvolutionEnded

\* C23 witness: a run over the slots of a day has returned after its last
\* generation, having bred a full population in each.
C23_Witness ==
    /\ evolution.stage = "returned"
    /\ evolution.evaluated = generations
    /\ evolution.generation = generations
    /\ Len(evolution.time_slots) = 3
    /\ "crossover" \in evolution.applied

\* C28: every fitness _evaluate_fitness returns lies in [0, 0.7], the best
\* fitness never exceeds the early-stop threshold, and every run of the
\* heuristic that has ended has evaluated exactly `generations` generations.
C28_FitnessBelowEarlyStop ==
    /\ \A i \in 1..Len(evolution.fitness_scores) :
          evolution.fitness_scores[i] \in 0..700000
    /\ evolution.best_fitness <= early_stop
    /\ EvolutionEnded => evolution.evaluated = generations

====
